---- MODULE Spec2Model ----
(***************************************************************************)
(* Model of the three marketplace-to-sheet sync scripts                    *)
(*   src/sync_etsy_to_sheets.py, src/sync_vinted_to_sheets.py,             *)
(*   src/sync_wallapop_to_sheets.py.                                       *)
(*                                                                         *)
(* Strings are sequences of tokens (a token is one character or one        *)
(* literal of the source such as "listing/"); a dict is a function from    *)
(* its keys.  The web pages are the environment: every action draws what   *)
(* the page shows from a small set.                                        *)
(***************************************************************************)
EXTENDS Integers, Sequences, FiniteSets, TLC

VARIABLES
    site,           \* which script runs: "etsy", "vinted", "wallapop"
    mode,           \* what the environment does (see the Init of each specification)
    dpc,            \* discovery: "idle", "loop", "done", "raised" (an exception left it)
    iters,          \* discovery: loop bodies executed so far
    page_num,       \* Etsy collect_shop_item_urls: page_num
    seen,           \* discovery: urls (Etsy), seen_ids (Vinted), seen (Wallapop)
    stable_rounds,  \* Vinted / Wallapop: stable_rounds
    last_count,     \* Wallapop: last_count
    slash,          \* Etsy: whether shop_url ends with "/"
    result,         \* discovery: the returned list
    shown,          \* history: the listings whose anchors the pages have shown
    index_titles,   \* history: the titles of the index pages the scanner has loaded
    pool,           \* which listing pages the environment draws from: "all", "few",
                    \*   "batch" (one page, and only some listings fail to load)
    item,           \* detail: the listing URL (Etsy, Wallapop) or item id (Vinted) fetched
    fpc,            \* detail: "idle", "goto", "backoff", "extract", "api", "html",
                    \*         "done" (returned row), "raised" (an exception left it)
    attempt,        \* Etsy fetch_item: attempt; Vinted: the API URL tried (1, 2)
    navs,           \* history: page.goto calls of this fetch
    waits,          \* history: the waits of the calls of backoff, in 1/JitterRes seconds
    blocked,        \* Etsy fetch_item: is_blocked(page.title()) of the page loaded last
    page_in,        \* history: the page the row was extracted from
    row,            \* detail: the returned record
    probe,          \* backoff called alone: the attempt, the jitters and the two waits
    norm,           \* parse_price_currency_from_text called alone: the text, the pair
                    \*   it returns and the pair returned for the text of that pair
    rpc,            \* run / main: "idle", "start", "discover", "loop", "fetching",
                    \*   "done" (returned), "exit" (SystemExit / RuntimeError of a
                    \*   configuration check), "unreachable" (a request to the sheet
                    \*   raised), "failed" (an exception left discovery), "aborted"
                    \*   (an exception left the loop)
    cfg,            \* which environment variables are set: [profile, sheet, creds]
    VINTED_DOMAIN,  \* Vinted: the domain, as the sequence of its labels
    item_urls,      \* run / main: item_urls (Etsy, Wallapop), ids (Vinted)
    idx,            \* run / main: position of the loop in item_urls
    rows,           \* run / main: rows (Etsy), items (Vinted), rows_to_write (Wallapop)
    sheet,          \* the worksheet: its rows, the header first
    attempted,      \* history: the listings the detail extractor was called for
    open,           \* browsers launched and not closed
    launched,       \* history: browsers launched
    net,            \* history: some request has gone to the sheet or to the site
    handed          \* history, Wallapop run: the calls of write_rows, each with the
                    \*   rows handed to it and whether append_rows returned

dvars == <<site, mode, dpc, iters, page_num, seen, stable_rounds, last_count,
           slash, result, shown, index_titles>>

fvars == <<pool, item, fpc, attempt, navs, waits, blocked, page_in, row, probe, norm>>

rvars == <<rpc, cfg, VINTED_DOMAIN, item_urls, idx, rows, sheet, attempted, open, launched,
           net, handed>>

vars == <<dvars, fvars, rvars>>

-----------------------------------------------------------------------------
(* Bounds of the model *)

\* listings a freely behaving index page can show
NumListings == 2
\* anchors a freely behaving index page shows in one iteration
MaxAnchors == 2
\* ld+json scripts of a listing page
MaxBlocks == 2
\* jitter values per second: random.uniform(0, 2) is drawn from 0..2*JitterRes
JitterRes == 2
\* the attempts backoff is called with when called alone
MaxAttempt == 5

-----------------------------------------------------------------------------
(* Strings *)

Sites == {"etsy", "vinted", "wallapop"}

DigitChars == <<"0", "1", "2", "3", "4", "5", "6", "7", "8", "9">>

IsDigit(c) == \E i \in 1..10 : DigitChars[i] = c

\* str(n) for n >= 0
RECURSIVE Digits(_)
Digits(n) ==
    IF n < 10 THEN <<DigitChars[n + 1]>>
    ELSE Digits(n \div 10) \o <<DigitChars[(n % 10) + 1]>>

\* s.startswith(p)
StartsWith(s, p) == Len(s) >= Len(p) /\ SubSeq(s, 1, Len(p)) = p

\* sub in s
Contains(s, sub) ==
    \E i \in 0..(Len(s) - Len(sub)) : SubSeq(s, i + 1, i + Len(sub)) = sub

\* s.split(c)[0]
SplitHead(s, c) ==
    IF \E i \in 1..Len(s) : s[i] = c
    THEN LET i == CHOOSE i \in 1..Len(s) : s[i] = c /\ \A j \in 1..(i - 1) : s[j] # c
         IN  SubSeq(s, 1, i - 1)
    ELSE s

\* s.rstrip(c)
RECURSIVE RStrip(_, _)
RStrip(s, c) ==
    IF Len(s) > 0 /\ s[Len(s)] = c THEN RStrip(SubSeq(s, 1, Len(s) - 1), c) ELSE s

\* The code point of the first character of a token: the order of Python's
\* string comparison.
TokOrd(c) ==
    CASE c = "-" -> 45
      [] c = "/" -> 47
      [] IsDigit(c) -> 47 + (CHOOSE i \in 1..10 : DigitChars[i] = c)
      [] c = "?" -> 63
      [] c = "https://www.etsy.com" -> 104
      [] c = "https://es.wallapop.com" -> 104
      [] c = "https://www.vinted.es" -> 104
      [] c = "item/" -> 105
      [] c = "items/" -> 105
      [] c = "listing/" -> 108
      [] OTHER -> 122

\* a < b for Python strings
RECURSIVE StrLess(_, _)
StrLess(a, b) ==
    IF Len(b) = 0 THEN FALSE
    ELSE IF Len(a) = 0 THEN TRUE
    ELSE IF TokOrd(Head(a)) # TokOrd(Head(b)) THEN TokOrd(Head(a)) < TokOrd(Head(b))
    ELSE StrLess(Tail(a), Tail(b))

\* sorted(S) for a set of strings
RECURSIVE Sorted(_)
Sorted(S) ==
    IF S = {} THEN <<>>
    ELSE LET m == CHOOSE m \in S : \A y \in S : y = m \/ StrLess(m, y)
         IN  <<m>> \o Sorted(S \ {m})

Range(s) == {s[i] : i \in DOMAIN s}

-----------------------------------------------------------------------------
(* The index pages of a seller: what the environment can show *)

Origin(s) ==
    CASE s = "etsy" -> "https://www.etsy.com"
      [] s = "vinted" -> "https://www.vinted.es"
      [] s = "wallapop" -> "https://es.wallapop.com"

PathTok(s) ==
    CASE s = "etsy" -> "listing/"
      [] s = "vinted" -> "items/"
      [] s = "wallapop" -> "item/"

\* The href of an anchor to listing n: absolute ("abs"), relative with a leading
\* slash ("rel") or without ("bare"), with or without a title slug and a query.
HrefText(s, form, n, slug, query) ==
    (CASE form = "abs" -> <<Origin(s), "/">>
       [] form = "rel" -> <<"/">>
       [] form = "bare" -> <<>>)
    \o <<PathTok(s)>> \o Digits(n)
    \o (IF slug THEN <<"-", "slug">> ELSE <<>>)
    \o (IF query THEN <<"?", "ref=x">> ELSE <<>>)

\* An anchor of a page: the listing it leads to (0: none) and its href.
Anchor(l, h) == [listing |-> l, href |-> h]

\* Vinted's item links may carry a title slug; the other two sites' listing
\* URLs are modelled without one (a slug would be part of the canonical URL).
Slugs(s) == IF s = "vinted" THEN BOOLEAN ELSE {FALSE}

\* An href without a leading slash is relative to the document, not to the
\* origin; Wallapop's anchors are read resolved by the browser, so its pages
\* are modelled without that form.
Forms(s) == IF s = "wallapop" THEN {"abs", "rel"} ELSE {"abs", "rel", "bare"}

ListingAnchors(s) ==
    {Anchor(n, HrefText(s, f, n, g, q)) :
        <<n, f, g, q>> \in (1..NumListings) \X Forms(s) \X Slugs(s) \X BOOLEAN}

OtherAnchors == {Anchor(0, <<"/", "help">>), Anchor(0, <<>>)}

AnchorUniverse(s) == ListingAnchors(s) \cup OtherAnchors

\* the subsets of U with at most k elements
RECURSIVE SubsetsUpTo(_, _)
SubsetsUpTo(U, k) ==
    IF k = 0 THEN {{}}
    ELSE LET P == SubsetsUpTo(U, k - 1) IN P \cup {p \cup {a} : p \in P, a \in U}

AnchorSets(s) == SubsetsUpTo(AnchorUniverse(s), MaxAnchors)

\* The anchors of the mock paginator and of the ever-growing page.
PlainAnchor(s, n) == Anchor(n, HrefText(s, "abs", n, FALSE, FALSE))

\* The pages the environment can show in iteration k (1-based):
\*   "free": anything;
\*   "mock": 5 iterations of 10 new items, then the same 10 items forever;
\*   "grow": one new item in every iteration.
PageAnchors(s, m, k) ==
    CASE m = "free" -> AnchorSets(s)
      [] m = "mock" -> {{PlainAnchor(s, n) :
                            n \in (IF k <= 5 THEN (10 * (k - 1) + 1)..(10 * k) ELSE 41..50)}}
      [] m = "grow" -> {{PlainAnchor(s, k)}}

(* page titles that show a block: is_blocked of the Etsy script *)

RATE_LIMIT_MARKERS ==
    {<<"robot", " ", "check">>, <<"verify", " ", "you", " ", "are", " ", "a", " ", "human">>,
     <<"are", " ", "you", " ", "a", " ", "human">>, <<"unusual", " ", "traffic">>}

\* str.lower(), word by word
LowerTok(c) ==
    CASE c = "Robot" -> "robot"
      [] c = "Check" -> "check"
      [] c = "ROBOT" -> "robot"
      [] c = "CHECK" -> "check"
      [] OTHER -> c

Lower(s) == [i \in 1..Len(s) |-> LowerTok(s[i])]

is_blocked(title) == \E x \in RATE_LIMIT_MARKERS : Contains(Lower(title), x)

\* The title of an index page: that of the shop or profile, or that of an
\* anti-bot check.  A page of the anti-bot check has no anchor to a listing
\* and no next-page control.  The mock paginator and the ever-growing page
\* never show the check.
IndexTitles(m) ==
    IF m = "free" THEN {<<"Shop">>, <<"Robot", " ", "Check">>} ELSE {<<"Shop">>}

\* Whether a next-page control is present: always in "mock" and "grow".
NextControls(m) == IF m = "free" THEN BOOLEAN ELSE {TRUE}

Hrefs(A) == {a.href : a \in A}
Listings(A) == {a.listing : a \in A} \ {0}

\* The canonical URL (Etsy, Wallapop) or id (Vinted) of listing n.
Canonical(s, n) ==
    IF s = "vinted" THEN Digits(n) ELSE <<Origin(s), "/", PathTok(s)>> \o Digits(n)

\* No fetch is going on.
NoPage == [kind |-> "none"]
NoRow == <<>>
NoProbe == [k |-> 0]
NoNorm == [pc |-> "idle"]

\* no run: the scanners and extractors are exercised alone
RunIdle ==
    /\ rpc = "idle"
    /\ cfg = [profile |-> TRUE, sheet |-> TRUE, creds |-> TRUE]
    /\ item_urls = <<>>
    /\ idx = 0
    /\ rows = <<>>
    /\ sheet = <<>>
    /\ attempted = <<>>
    /\ open = 0
    /\ launched = 0
    /\ net = FALSE
    /\ handed = <<>>

FetchIdle ==
    /\ pool = "all"
    /\ item = <<>>
    /\ fpc = "idle"
    /\ attempt = 0
    /\ navs = 0
    /\ waits = <<>>
    /\ blocked = FALSE
    /\ page_in = NoPage
    /\ row = NoRow
    /\ probe = NoProbe
    /\ norm = NoNorm

-----------------------------------------------------------------------------
(* ID discovery: collect_shop_item_urls (Etsy) *)

EtsyMaxPages == 50

\* h.startswith("http")
StartsWithHttp(h) == Len(h) > 0 /\ Head(h) \in {Origin(s) : s \in Sites}

\* full = h if absolute, else ORIGIN + h or ORIGIN + "/" + h; then split("?")[0]
EtsyFull(h) ==
    SplitHead(IF StartsWithHttp(h) THEN h
              ELSE IF StartsWith(h, <<"/">>) THEN <<Origin("etsy")>> \o h
              ELSE <<Origin("etsy"), "/">> \o h,
              "?")

\* The loop over found: urls afterwards.
EtsyAddFound(urls, found) ==
    urls \cup {EtsyFull(h) : h \in {x \in found : /\ x # <<>>
                                                   /\ Contains(EtsyFull(x), <<"/", "listing/">>)}}

EtsyShopUrl(trailing) ==
    <<Origin("etsy"), "/", "shop/TuTienda">> \o (IF trailing THEN <<"/">> ELSE <<>>)

\* The alternate index URLs tried when page 1 shows no listing.
EtsyVariants(shop_url) ==
    <<RStrip(shop_url, "/") \o <<"?", "ref=seller-platform-mcnav">>,
      RStrip(shop_url, "/") \o <<"/", "?", "ref=seller-platform-mcnav">>,
      RStrip(shop_url, "/")>>

\* The variants loop: variant i is skipped when it is the URL just visited,
\* and the loop ends as soon as urls is not empty.  pages[i] is what variant i
\* shows.  Returns the urls and the listings the visited variants showed.
RECURSIVE EtsyTryVariants(_, _, _, _, _)
EtsyTryVariants(urls, listed, variants, pages, url) ==
    IF variants = <<>> THEN [urls |-> urls, listed |-> listed]
    ELSE IF Head(variants) = url
         THEN EtsyTryVariants(urls, listed, Tail(variants), Tail(pages), url)
         ELSE LET u == EtsyAddFound(urls, Hrefs(Head(pages)))
                  l == listed \cup Listings(Head(pages))
              IN  IF Cardinality(u) > 0 THEN [urls |-> u, listed |-> l]
                  ELSE EtsyTryVariants(u, l, Tail(variants), Tail(pages), url)

\* What the three variant pages can show.
VariantPages(s) == [1..3 -> SubsetsUpTo(AnchorUniverse(s), 1)]

\* a cap checked one page late
EtsyCapReachedLate(p) == p > EtsyMaxPages + 1

\* page_num > 50 after the increment
EtsyCapReached(p) == p > EtsyMaxPages

\* One iteration of the while loop, and the return when it breaks.
EtsyPage ==
    /\ site = "etsy"
    /\ dpc = "loop"
    /\ \E A \in PageAnchors("etsy", mode, page_num), has_next \in NextControls(mode),
          title \in IndexTitles(mode) :
        /\ is_blocked(title) => (A = {} /\ ~has_next)
        /\ index_titles' = index_titles \cup {title}
        /\ LET shop_url == EtsyShopUrl(slash)
               url      == IF page_num = 1 THEN shop_url
                           ELSE shop_url \o <<"?", "page=">> \o Digits(page_num)
               urls1    == EtsyAddFound(seen, Hrefs(A))
               added    == Cardinality(urls1) - Cardinality(seen)
               retry    == page_num = 1 /\ Cardinality(urls1) = 0
           IN  \E vp \in (IF retry THEN VariantPages("etsy") ELSE {<<{}, {}, {}>>}) :
               LET tried == IF retry
                            THEN EtsyTryVariants(urls1, {}, EtsyVariants(shop_url), vp, url)
                            ELSE [urls |-> urls1, listed |-> {}]
                   stop  == added = 0 /\ ~has_next
                   out   == stop \/ EtsyCapReached(page_num + 1)
               IN  /\ seen' = tried.urls
                   /\ shown' = shown \cup Listings(A) \cup tried.listed
                   /\ iters' = iters + 1
                   /\ page_num' = IF stop THEN page_num ELSE page_num + 1
                   /\ dpc' = IF out THEN "done" ELSE "loop"
                   /\ result' = IF out THEN Sorted(tried.urls) ELSE result
    /\ UNCHANGED <<site, mode, stable_rounds, last_count, slash>>
    /\ UNCHANGED <<fvars, rvars>>

-----------------------------------------------------------------------------
(* ID discovery: collect_item_ids_with_browser (Vinted) *)

VintedMaxScrolls == 100
VintedStableRounds == 4

\* The number of digits of h right after position i.
RECURSIVE DigitRun(_, _)
DigitRun(h, i) == IF i < Len(h) /\ IsDigit(h[i + 1]) THEN 1 + DigitRun(h, i + 1) ELSE 0

\* ITEM_ID_RE = (?:^|/)(?:items)/(\d+)(?:-|$): the positions of "items/" where
\* the pattern matches.
ItemIdMatches(h) ==
    {i \in 1..Len(h) :
        /\ h[i] = "items/"
        /\ (i = 1 \/ h[i - 1] = "/")
        /\ DigitRun(h, i) >= 1
        /\ (i + DigitRun(h, i) = Len(h) \/ h[i + DigitRun(h, i) + 1] = "-")}

\* ITEM_ID_RE.search(h).group(1) of the leftmost match
ItemId(h) ==
    LET i == CHOOSE i \in ItemIdMatches(h) : \A j \in ItemIdMatches(h) : i <= j
    IN  SubSeq(h, i + 1, i + DigitRun(h, i))

\* The loop over hrefs: seen_ids afterwards.
VintedAddIds(seen_ids, hrefs) ==
    seen_ids \cup {ItemId(h) : h \in {x \in hrefs : x # <<>> /\ ItemIdMatches(x) # {}}}

\* the orders of a set small enough to enumerate
Perms(S) ==
    {p \in [1..Cardinality(S) -> S] : \A i, j \in 1..Cardinality(S) : i # j => p[i] # p[j]}

Reverse(s) == [i \in 1..Len(s) |-> s[Len(s) + 1 - i]]

\* list(seen_ids): the iteration order of a set of strings is not fixed.
MaxPermute == 3
ListOf(S) ==
    IF Cardinality(S) <= MaxPermute THEN Perms(S) ELSE {Sorted(S), Reverse(Sorted(S))}

\* stable_rounds >= 4
VintedStable(n) == n >= VintedStableRounds

\* One iteration of the for loop, and the return when it ends.
VintedScroll ==
    /\ site = "vinted"
    /\ dpc = "loop"
    /\ \E A \in PageAnchors("vinted", mode, iters + 1),
          title \in (IF iters = 0 THEN IndexTitles(mode) ELSE index_titles) :
        /\ is_blocked(title) => A = {}
        /\ index_titles' = index_titles \cup {title}
        /\ LET ids    == VintedAddIds(seen, Hrefs(A))
               added  == Cardinality(ids) - Cardinality(seen)
               stable == IF added = 0 THEN stable_rounds + 1 ELSE 0
               out    == VintedStable(stable) \/ iters + 1 >= VintedMaxScrolls
           IN  /\ seen' = ids
               /\ shown' = shown \cup Listings(A)
               /\ stable_rounds' = stable
               /\ iters' = iters + 1
               /\ dpc' = IF out THEN "done" ELSE "loop"
               /\ IF out THEN result' \in ListOf(ids) ELSE result' = result
    /\ UNCHANGED <<site, mode, page_num, last_count, slash>>
    /\ UNCHANGED <<fvars, rvars>>

-----------------------------------------------------------------------------
(* ID discovery: collect_profile_item_urls (Wallapop) *)

WallapopMaxScrolls == 60
WallapopStableRounds == 3

\* new URL(a.href, location.origin).href
WallapopResolve(h) ==
    IF StartsWithHttp(h) THEN h
    ELSE IF StartsWith(h, <<"/">>) THEN <<Origin("wallapop")>> \o h
    ELSE <<Origin("wallapop"), "/">> \o h

\* page.evaluate: the anchors selected by a[href*="/item/"], resolved
WallapopUrls(A) ==
    {WallapopResolve(h) : h \in {x \in Hrefs(A) : Contains(x, <<"/", "item/">>)}}

\* The loop over urls: seen afterwards.
WallapopAddUrls(s, urls) == s \cup {SplitHead(u, "?") : u \in urls}

\* stable_rounds >= 3
WallapopStable(n) == n >= WallapopStableRounds

\* One iteration of the for loop, and the return when it ends.
WallapopScroll ==
    /\ site = "wallapop"
    /\ dpc = "loop"
    /\ \E A \in PageAnchors("wallapop", mode, iters + 1),
          title \in (IF iters = 0 THEN IndexTitles(mode) ELSE index_titles) :
        /\ is_blocked(title) => A = {}
        /\ index_titles' = index_titles \cup {title}
        /\ LET s2     == WallapopAddUrls(seen, WallapopUrls(A))
               same   == Cardinality(s2) = last_count
               stable == IF same THEN stable_rounds + 1 ELSE 0
               out    == WallapopStable(stable) \/ iters + 1 >= WallapopMaxScrolls
           IN  /\ seen' = s2
               /\ shown' = shown \cup Listings(A)
               /\ stable_rounds' = stable
               /\ last_count' = IF same THEN last_count ELSE Cardinality(s2)
               /\ iters' = iters + 1
               /\ dpc' = IF out THEN "done" ELSE "loop"
               /\ result' = IF out THEN Sorted(s2) ELSE result
    /\ UNCHANGED <<site, mode, page_num, slash>>
    /\ UNCHANGED <<fvars, rvars>>

-----------------------------------------------------------------------------
(* The discovery scanners alone, against every page behaviour *)

\* A navigation or an evaluation of the scanner raises (a timeout): nothing
\* around it catches the exception, which leaves the scanner.
DiscoveryRaises ==
    /\ dpc = "loop"
    /\ mode = "free"
    /\ dpc' = "raised"
    /\ UNCHANGED <<site, mode, iters, page_num, seen, stable_rounds, last_count,
                   slash, result, shown, index_titles>>
    /\ UNCHANGED <<fvars, rvars>>

DiscoveryInit ==
    /\ site \in Sites
    /\ mode \in {"free", "mock", "grow"}
    /\ dpc = "loop"
    /\ iters = 0
    /\ page_num = 1
    /\ seen = {}
    /\ stable_rounds = 0
    /\ last_count = 0
    /\ slash \in (IF site = "etsy" THEN BOOLEAN ELSE {FALSE})
    /\ result = <<>>
    /\ shown = {}
    /\ index_titles = {}
    /\ FetchIdle
    /\ RunIdle
    /\ VINTED_DOMAIN = <<"es">>

DiscoveryNext == EtsyPage \/ VintedScroll \/ WallapopScroll \/ DiscoveryRaises

SpecDiscovery == DiscoveryInit /\ [][DiscoveryNext]_vars

-----------------------------------------------------------------------------
(* Discovery: the claims *)

Count(seq, x) == Cardinality({i \in DOMAIN seq : seq[i] = x})

\* C1 (Dedup): when a scanner returns, the returned list holds the canonical
\* URL (Etsy, Wallapop) or id (Vinted) of every listing whose anchor some
\* iteration showed, exactly once, whatever the form of the hrefs (absolute or
\* relative, with or without a query string).
C1_DedupExactlyOnce ==
    dpc = "done" => \A n \in shown : Count(result, Canonical(site, n)) = 1

\* The part of C1 that holds of all three scanners: nothing is returned twice,
\* and nothing but canonical URLs/ids of listings shown.
DedupNoDuplicates ==
    dpc = "done" =>
        /\ \A i, j \in DOMAIN result : i # j => result[i] # result[j]
        /\ Range(result) \subseteq {Canonical(site, n) : n \in shown}

\* C1 holds of the Etsy and Wallapop scanners.
DedupEtsyWallapop ==
    (dpc = "done" /\ site # "vinted") =>
        \A n \in shown : Count(result, Canonical(site, n)) = 1

\* C2 (Discovery termination): against the mock paginator (5 iterations of 10
\* new items, then the same 10 items forever, the next-page control staying
\* present) a scanner stops within 5 + stable-rounds-threshold iterations
\* (threshold 4 in Vinted, 3 in Wallapop) and never runs on to its hard cap.
C2_MockTerminates ==
    mode = "mock" =>
        /\ site = "vinted" => iters <= 5 + 4
        /\ site = "wallapop" => iters <= 5 + 3
        /\ site = "etsy" => iters < 50

\* C2 holds of the Vinted and Wallapop scanners, which count stable rounds.
MockTerminatesVintedWallapop ==
    (mode = "mock" /\ site # "etsy") =>
        /\ iters <= 5 + (IF site = "vinted" THEN 4 ELSE 3)
        /\ (dpc = "done" => Range(result) = {Canonical(site, n) : n \in 1..50})

\* the caps C3 states
Cap(s) ==
    CASE s = "etsy" -> 50
      [] s = "vinted" -> 100
      [] s = "wallapop" -> 60

\* C3 (Hard cap): whatever the pages show, a discovery loop runs at most its
\* cap of iterations (50, 100, 60), has returned once the cap is reached, and
\* returns every URL/id found so far: against a page that shows a new listing
\* in every iteration, all the listings of the iterations made.
C3_HardCap ==
    /\ iters <= Cap(site)
    /\ iters = Cap(site) => dpc = "done"
    /\ dpc = "done" =>
        /\ Range(result) = seen
        /\ mode = "grow" => Range(result) = {Canonical(site, n) : n \in 1..Cap(site)}

\* C3's case: the Etsy loop ended by its cap, returning the 50 URLs found.
C3_Witness ==
    /\ site = "etsy" /\ mode = "grow" /\ dpc = "done"
    /\ iters = 50
    /\ Len(result) = 50

C3_WitnessVinted == site = "vinted" /\ mode = "grow" /\ dpc = "done" /\ Len(result) = 100

C3_WitnessWallapop == site = "wallapop" /\ mode = "grow" /\ dpc = "done" /\ Len(result) = 60

\* the sequence is in ascending order of its strings
Ascending(seq) == \A i, j \in DOMAIN seq : i < j => StrLess(seq[i], seq[j])

\* C18 (Sorted output): a scanner returns its URLs/ids in sorted order, which
\* the set of listings seen determines, whatever the order they were met in.
C18_SortedOutput == dpc = "done" => (Ascending(result) /\ result = Sorted(seen))

\* C18 holds of the Etsy and Wallapop scanners, which return sorted(...).
SortedOutputEtsyWallapop ==
    (dpc = "done" /\ site # "vinted") => (Ascending(result) /\ result = Sorted(seen))

\* The Vinted scanner returns the ids it has seen, in some order.
VintedOutput == (dpc = "done" /\ site = "vinted") => Range(result) = seen

\* An index page whose title shows a block has been loaded by this scan.
BlockedIndexSeen == \E t \in index_titles : is_blocked(t)

\* C20: a scan that has loaded an index page showing a block signal has
\* classified it as blocked (the detection of fetch_item, is_blocked) and has
\* waited a backoff before loading it again, so once the scan has returned at
\* least one backoff wait has been made; the blocked page has not been taken
\* for a page with zero listings.
C20_GuardOnDiscovery == (dpc = "done" /\ BlockedIndexSeen) => Len(waits) >= 1

\* No scanner calls backoff: a scan makes no wait, whatever its pages show.
DiscoveryNeverWaits == dpc # "idle" => waits = <<>>

\* The Etsy scanner takes a blocked index page for the last page of the shop:
\* it adds nothing and has no next-page control, so the loop ends on it.
EtsyBlockedEndsScan == (site = "etsy" /\ BlockedIndexSeen) => dpc = "done"

\* The Vinted and Wallapop scanners count every scroll of a blocked profile
\* page as a stable round and return the empty list.
BlockedProfileEmpty ==
    (site # "etsy" /\ dpc = "done" /\ BlockedIndexSeen) => result = <<>>

-----------------------------------------------------------------------------
(* Python values: what json.loads, the page and the dicts of the code hold *)

Str(s) == [t |-> "str", s |-> s]
None == [t |-> "none"]
\* a number, by its decimal representation
Num(r) == [t |-> "num", s |-> r]
\* a dict by its function from keys to values; a list by its sequence
Dict(f) == [t |-> "dict", f |-> f]
List(l) == [t |-> "list", l |-> l]

EmptyStr == Str(<<>>)
EmptyDict == Dict(<<>>)

\* bool(v)
Truthy(v) ==
    CASE v.t = "str" -> v.s # <<>>
      [] v.t = "none" -> FALSE
      [] v.t = "num" -> v.s # <<"0">>
      [] v.t = "dict" -> DOMAIN v.f # {}
      [] v.t = "list" -> v.l # <<>>

\* a or b
Or(a, b) == IF Truthy(a) THEN a ELSE b

\* str(v); the text of a dict or a list is not modelled further
StrOf(v) ==
    CASE v.t = "str" -> v
      [] v.t = "none" -> Str(<<"None">>)
      [] v.t = "num" -> Str(v.s)
      [] OTHER -> Str(<<"{...}">>)

\* d.get(k, default) for a dict d of the code (a function)
Get(d, k, default) == IF k \in DOMAIN d THEN d[k] ELSE default

\* d.get(k, default) for a value that is a dict
VGet(v, k, default) == Get(v.f, k, default)

\* {**a, **b}
Merge(a, b) == [k \in DOMAIN a \cup DOMAIN b |-> IF k \in DOMAIN b THEN b[k] ELSE a[k]]

\* the one-entry dict {k: v} when cond, else {}
Entry(cond, k, v) == IF cond THEN k :> v ELSE <<>>

\* sep.join(l) for a list of strings
RECURSIVE Join(_, _)
Join(sep, l) ==
    IF l = <<>> THEN <<>>
    ELSE IF Len(l) = 1 THEN l[1].s
    ELSE l[1].s \o sep \o Join(sep, Tail(l))

\* the first text of a sequence that is not empty, or ""
RECURSIVE FirstNonEmpty(_)
FirstNonEmpty(texts) ==
    IF texts = <<>> THEN <<>>
    ELSE IF Head(texts) # <<>> THEN Head(texts)
    ELSE FirstNonEmpty(Tail(texts))

\* The text of a script element: none, not JSON, or a JSON document.
NoText == [kind |-> "empty"]
BadJson == [kind |-> "invalid"]
Json(v) == [kind |-> "json", data |-> v]

-----------------------------------------------------------------------------
(* Etsy: parse_json_ld, fallback_from_dom, fetch_item *)

\* (isinstance(t, list) and "Product" in t) or t == "Product"
IsProductType(t) ==
    \/ t.t = "list" /\ \E i \in DOMAIN t.l : t.l[i] = Str(<<"Product">>)
    \/ t = Str(<<"Product">>)

\* offers of a Product node: node.get("offers") or {}, a list replaced by its head
EtsyOffers(node) ==
    LET o == Or(VGet(node, "offers", None), EmptyDict)
    IN  IF o.t = "list" THEN (IF o.l # <<>> THEN o.l[1] ELSE EmptyDict) ELSE o

\* offers.get(...) on a value that is no dict raises AttributeError
EtsyProductRaises(node) == Truthy(EtsyOffers(node)) /\ EtsyOffers(node).t # "dict"

\* category / keywords: a list is joined, a string kept, anything else ""
JoinedOrStr(v, sep) ==
    IF v.t = "list" THEN Str(Join(sep, v.l)) ELSE IF v.t = "str" THEN v ELSE EmptyStr

\* the dict parse_json_ld fills for a Product node
EtsyProductOut(node) ==
    LET img0   == VGet(node, "image", EmptyStr)
        img    == IF img0.t = "list" THEN (IF img0.l # <<>> THEN img0.l[1] ELSE EmptyStr) ELSE img0
        offers == EtsyOffers(node)
        has    == Truthy(offers)
        agg    == has /\ Contains(StrOf(VGet(offers, "@type", None)).s, <<"AggregateOffer">>)
        price  == IF ~has THEN EmptyStr
                  ELSE IF agg THEN StrOf(Or(Or(VGet(offers, "lowPrice", None),
                                               VGet(offers, "highPrice", None)), EmptyStr))
                  ELSE StrOf(Or(VGet(offers, "price", EmptyStr), EmptyStr))
        curr   == IF ~has THEN EmptyStr ELSE Or(VGet(offers, "priceCurrency", EmptyStr), EmptyStr)
        avail  == IF ~has THEN EmptyStr ELSE VGet(offers, "availability", EmptyStr)
    IN  ("title" :> VGet(node, "name", EmptyStr))
        @@ ("description" :> VGet(node, "description", EmptyStr))
        @@ ("image" :> Or(img, EmptyStr))
        @@ ("price" :> price)
        @@ ("currency" :> curr)
        @@ ("availability" :> avail)
        @@ ("url" :> VGet(node, "url", EmptyStr))
        @@ ("category" :> JoinedOrStr(VGet(node, "category", None), <<" > ">>))
        @@ ("tags" :> JoinedOrStr(VGet(node, "keywords", None), <<", ">>))
        @@ ("id" :> StrOf(Or(Or(VGet(node, "sku", None), VGet(node, "productID", None)), EmptyStr)))

\* the nodes of a document: data if it is a list, else [data]
LdNodes(data) == IF data.t = "list" THEN data.l ELSE <<data>>

\* the first node of nodes that is a dict of type Product, or 0
FirstProduct(nodes) ==
    LET P == {i \in DOMAIN nodes :
                 nodes[i].t = "dict" /\ IsProductType(VGet(nodes[i], "@type", None))}
    IN  IF P = {} THEN 0 ELSE CHOOSE i \in P : \A j \in P : i <= j

\* parse_json_ld(text): [raised, out]
EtsyParseJsonLd(text) ==
    IF text.kind # "json" THEN [raised |-> FALSE, out |-> <<>>]
    ELSE LET nodes == LdNodes(text.data)
             i     == FirstProduct(nodes)
         IN  IF i = 0 THEN [raised |-> FALSE, out |-> <<>>]
             ELSE IF EtsyProductRaises(nodes[i]) THEN [raised |-> TRUE, out |-> <<>>]
             ELSE [raised |-> FALSE, out |-> EtsyProductOut(nodes[i])]

\* The loop over the ld+json scripts of fetch_item, inside its try: parsed is
\* the result of the last script parsed, the loop ends at the first one with a
\* title, and any exception leaves parsed = {}.
RECURSIVE EtsyLdLoop(_, _)
EtsyLdLoop(scripts, parsed) ==
    IF scripts = <<>> THEN parsed
    ELSE IF Head(scripts).kind = "empty" THEN EtsyLdLoop(Tail(scripts), parsed)
    ELSE LET r == EtsyParseJsonLd(Head(scripts))
         IN  IF r.raised THEN <<>>
             ELSE IF Truthy(Get(r.out, "title", None)) THEN r.out
             ELSE EtsyLdLoop(Tail(scripts), r.out)

\* re.sub(r"[^\d,.\-]", "", p).replace(",", ".")
EtsyPriceText(p) ==
    LET kept == SelectSeq(p, LAMBDA c : IsDigit(c) \/ c \in {",", ".", "-"})
    IN  [i \in 1..Len(kept) |-> IF kept[i] = "," THEN "." ELSE kept[i]]

\* fallback_from_dom(page).  dom.h1s, dom.prices and dom.imgs are the texts of
\* the selectors tried in turn, dom.txt the text of the price region.
EtsyFallbackFromDom(dom) ==
    LET t == FirstNonEmpty(dom.h1s)
        p == FirstNonEmpty(dom.prices)
    IN  Entry(t # <<>>, "title", Str(t))
        @@ Entry(p # <<>>, "price", Str(EtsyPriceText(p)))
        @@ Entry(\E i \in DOMAIN dom.txt : dom.txt[i] \in {"€", "$", "£"}, "currency",
                 IF \E i \in DOMAIN dom.txt : dom.txt[i] = "€" THEN Str(<<"EUR">>)
                 ELSE IF \E i \in DOMAIN dom.txt : dom.txt[i] = "$" THEN Str(<<"USD">>)
                 ELSE Str(<<"GBP">>))
        @@ ("image" :> Str(FirstNonEmpty(dom.imgs)))
        @@ Entry(dom.sold, "availability", Str(<<"SoldOut">>))
        @@ Entry(dom.cat # <<>>, "category", Str(dom.cat))

\* parsed = {**fallback_from_dom(page), **parsed}
EtsyMerge(dom_data, parsed) == Merge(dom_data, parsed)

\* parsed after the two strategies
EtsyParsed(page) ==
    LET parsed == EtsyLdLoop(page.ld, <<>>)
    IN  IF ~Truthy(Get(parsed, "title", None))
        THEN EtsyMerge(EtsyFallbackFromDom(page.dom), parsed)
        ELSE parsed

\* LISTING_ID_RE = /listing/(\d+): group 1 of the leftmost match, or ""
ListingIdOf(url) ==
    LET M == {i \in 2..Len(url) :
                 url[i - 1] = "/" /\ url[i] = "listing/" /\ DigitRun(url, i) >= 1}
    IN  IF M = {} THEN <<>>
        ELSE LET i == CHOOSE i \in M : \A j \in M : i <= j
             IN  SubSeq(url, i + 1, i + DigitRun(url, i))

EtsyHeaders ==
    <<"id", "title", "price", "currency", "availability", "category", "tags", "url",
      "image", "description", "shop_name", "shop_url", "timestamp_utc">>

\* the row fetch_item returns for the page loaded last
EtsyRow(page, url, shop_name, shop_url, now) ==
    LET parsed == EtsyParsed(page)
        id0    == Or(Get(parsed, "id", None), EmptyStr)
        id     == IF Truthy(id0) THEN id0 ELSE Str(ListingIdOf(url))
    IN  [k \in Range(EtsyHeaders) |->
            CASE k = "id" -> id
              [] k = "url" -> Or(Get(parsed, "url", None), Str(url))
              [] k = "shop_name" -> Str(shop_name)
              [] k = "shop_url" -> Str(shop_url)
              [] k = "timestamp_utc" -> Str(now)
              [] OTHER -> Get(parsed, k, EmptyStr)]

-----------------------------------------------------------------------------
(* Etsy listing pages: what the environment can show *)

T(x) == Str(<<x>>)

ProductFull ==
    Dict(("@type" :> T("Product")) @@ ("name" :> T("A")) @@ ("sku" :> T("77"))
         @@ ("offers" :> Dict(("price" :> T("10")) @@ ("priceCurrency" :> T("EUR")))))

\* a numeric price and no priceCurrency
ProductNoCurrency ==
    Dict(("@type" :> T("Product")) @@ ("name" :> T("A"))
         @@ ("offers" :> Dict("price" :> Num(<<"1", "0">>))))

\* no name and no offers
ProductEmpty == Dict(("@type" :> List(<<T("Thing"), T("Product")>>)) @@ ("name" :> EmptyStr))

\* offers that is a string
ProductOffersStr ==
    Dict(("@type" :> T("Product")) @@ ("name" :> T("A")) @@ ("offers" :> T("x")))

ProductAggregate ==
    Dict(("@type" :> T("Product")) @@ ("name" :> T("A"))
         @@ ("offers" :> List(<<Dict(("@type" :> T("AggregateOffer"))
                                     @@ ("lowPrice" :> Num(<<"5">>))
                                     @@ ("priceCurrency" :> T("USD")))>>)))

\* a list whose elements are no Product
NoProductList == List(<<T("x"), Dict("@type" :> T("WebSite"))>>)

LdTexts ==
    {NoText, BadJson, Json(ProductFull), Json(ProductNoCurrency), Json(ProductEmpty),
     Json(ProductOffersStr), Json(ProductAggregate), Json(NoProductList)}

\* the sequences over S of length at most n
RECURSIVE SeqsUpTo(_, _)
SeqsUpTo(S, n) ==
    IF n = 0 THEN {<<>>}
    ELSE LET P == SeqsUpTo(S, n - 1) IN P \cup {Append(p, x) : p \in P, x \in S}

EtsyDom(h1, prices, txt, extras) ==
    [h1s |-> <<<<>>, <<>>, h1>>, prices |-> prices, txt |-> txt,
     imgs |-> <<<<>>, <<>>, IF extras THEN <<"img.jpg">> ELSE <<>>>>,
     sold |-> extras, cat |-> IF extras THEN <<"Lamps">> ELSE <<>>]

EtsyDoms ==
    {EtsyDom(h1, prices, txt, extras) :
        h1 \in {<<>>, <<"B">>},
        prices \in {<<<<>>, <<>>, <<>>, <<>>>>,
                    <<<<"€", "1", "0", ",", "5", "0">>, <<>>, <<>>, <<>>>>,
                    <<<<>>, <<>>, <<"1", "0">>, <<>>>>},
        txt \in {<<>>, <<"€", "1", "0", ",", "5", "0">>, <<"1", "0">>},
        extras \in BOOLEAN}

\* a listing page that shows nothing to extract
EtsyEmptyDom == EtsyDom(<<>>, <<<<>>, <<>>, <<>>, <<>>>>, <<>>, FALSE)

EtsyPageOf(ld, dom) == [kind |-> "etsy", ld |-> ld, dom |-> dom]

\* the listing pages
EtsyPages(pl) ==
    IF pl = "all"
    THEN {EtsyPageOf(ld, dom) : ld \in SeqsUpTo(LdTexts, MaxBlocks), dom \in EtsyDoms}
    ELSE {EtsyPageOf(<<Json(ProductFull)>>, EtsyEmptyDom), EtsyPageOf(<<>>, EtsyEmptyDom)}

\* the pages of an anti-bot check: no structured data, at most a heading
EtsyBlockPages ==
    {EtsyPageOf(<<>>, EtsyDom(h1, <<<<>>, <<>>, <<>>, <<>>>>, <<>>, FALSE)) :
        h1 \in {<<>>, <<"Robot", " ", "Check">>}}

\* page.title() of a listing page and of anti-bot checks
PageTitles == {<<"Lamp">>, <<"Robot", " ", "Check">>, <<"ROBOT", " ", "CHECK">>}

-----------------------------------------------------------------------------
(* Etsy fetch_item: the retry loop and the extraction *)

EtsyMaxAttempts == 3

Min(a, b) == IF a <= b THEN a ELSE b

\* a base that does not grow with the attempt
BackoffBaseFlat(k) == Min(20, 3)

\* base = min(20, 3 * 2 ** (attempt - 1))
BackoffBase(k) == Min(20, 3 * 2 ^ (k - 1))

\* base + random.uniform(0, 2), in 1/JitterRes seconds; j is the jitter drawn
BackoffWait(k, j) == BackoffBase(k) * JitterRes + j

Jitters == 0..(2 * JitterRes)

\* attempt < 3: another attempt follows a blocked page
EtsyRetries(k) == k < EtsyMaxAttempts

\* page.goto and the test of the title
EtsyGoto ==
    /\ site = "etsy"
    /\ fpc = "goto"
    /\ \/ \* page.goto raises (a timeout)
          /\ fpc' = "raised"
          /\ UNCHANGED <<navs, blocked>>
       \/ \E title \in PageTitles :
          /\ navs' = navs + 1
          /\ blocked' = is_blocked(title)
          /\ fpc' = IF is_blocked(title) /\ EtsyRetries(attempt) THEN "backoff" ELSE "extract"
    /\ UNCHANGED <<pool, item, attempt, waits, page_in, row, probe, norm>>
    /\ UNCHANGED <<dvars, rvars>>

\* backoff(attempt); continue
EtsyBackoff ==
    /\ site = "etsy"
    /\ fpc = "backoff"
    /\ \E j \in Jitters : waits' = Append(waits, BackoffWait(attempt, j))
    /\ attempt' = attempt + 1
    /\ fpc' = "goto"
    /\ UNCHANGED <<pool, item, navs, blocked, page_in, row, probe, norm>>
    /\ UNCHANGED <<dvars, rvars>>

ShopName == <<"TuTienda">>
Now == <<"2024-01-01T00:00:00">>

\* the rest of fetch_item, on the page loaded last
EtsyExtract ==
    /\ site = "etsy"
    /\ fpc = "extract"
    /\ \E page \in (IF blocked THEN EtsyBlockPages ELSE EtsyPages(pool)) :
        /\ page_in' = page
        /\ row' = EtsyRow(page, item, ShopName, EtsyShopUrl(slash), Now)
    /\ fpc' = "done"
    /\ UNCHANGED <<pool, item, attempt, navs, waits, blocked, probe, norm>>
    /\ UNCHANGED <<dvars, rvars>>

-----------------------------------------------------------------------------
(* Wallapop: normalize_price, parse_json_ld, extract_with_selectors,       *)
(* fetch_item_detail                                                       *)

IsSpace(c) == c \in {" ", "nbsp", "nnbsp"}

\* s.strip()
RECURSIVE LStrip(_)
LStrip(s) == IF s # <<>> /\ IsSpace(Head(s)) THEN LStrip(Tail(s)) ELSE s
RECURSIVE RStripSpace(_)
RStripSpace(s) ==
    IF s # <<>> /\ IsSpace(s[Len(s)]) THEN RStripSpace(SubSeq(s, 1, Len(s) - 1)) ELSE s
Strip(s) == RStripSpace(LStrip(s))

\* normalize_price(raw): <<num, currency>>
normalize_price(raw) ==
    IF raw = <<>> THEN <<<<>>, <<>>>>
    ELSE LET txt      == Strip(raw)
             currency == IF \E i \in DOMAIN txt : txt[i] = "€" THEN <<"€">> ELSE <<>>
             digits   == SelectSeq(txt, LAMBDA ch : IsDigit(ch) \/ ch \in {".", ","})
             num      == [i \in 1..Len(digits) |-> IF digits[i] = "," THEN "." ELSE digits[i]]
         IN  <<num, currency>>

\* offers of a product: product.get("offers") or {}, a list replaced by its head
WallapopOffers(product) ==
    LET o == Or(VGet(product, "offers", None), EmptyDict)
    IN  IF o.t = "list" THEN (IF o.l # <<>> THEN o.l[1] ELSE EmptyDict) ELSE o

\* v if it is a dict's "name", else v or ""
NameOrSelf(v) == IF v.t = "dict" THEN VGet(v, "name", EmptyStr) ELSE Or(v, EmptyStr)

\* the dict parse_json_ld fills for a Product node
WallapopProductOut(product) ==
    LET images == VGet(product, "image", None)
        offers == WallapopOffers(product)
        cat    == VGet(product, "category", EmptyStr)
    IN  ("title" :> VGet(product, "name", EmptyStr))
        @@ ("description" :> VGet(product, "description", EmptyStr))
        @@ ("image" :> IF images.t = "list" /\ images.l # <<>> THEN images.l[1]
                       ELSE IF images.t = "str" THEN images ELSE EmptyStr)
        @@ ("price" :> IF Truthy(offers) THEN StrOf(VGet(offers, "price", EmptyStr))
                       ELSE EmptyStr)
        @@ ("currency" :> IF Truthy(offers) THEN VGet(offers, "priceCurrency", EmptyStr)
                          ELSE EmptyStr)
        @@ ("url" :> VGet(product, "url", EmptyStr))
        @@ ("id" :> Or(Or(VGet(product, "sku", EmptyStr), VGet(product, "productID", EmptyStr)),
                       EmptyStr))
        @@ ("brand" :> NameOrSelf(VGet(product, "brand", EmptyStr)))
        @@ ("condition" :> VGet(product, "itemCondition", EmptyStr))
        @@ ("category" :> IF cat.t = "list" THEN Str(Join(<<", ">>, cat.l)) ELSE Or(cat, EmptyStr))
        @@ ("location" :> NameOrSelf(Or(Or(VGet(product, "areaServed", None),
                                           VGet(product, "productionPlace", None)), EmptyStr)))

\* The loop over nodes: node.get on a node that is no dict raises
\* AttributeError, and so does offers.get on offers that are no dict.
RECURSIVE WallapopNodes(_)
WallapopNodes(nodes) ==
    IF nodes = <<>> THEN [raised |-> FALSE, out |-> <<>>]
    ELSE IF Head(nodes).t # "dict" THEN [raised |-> TRUE, out |-> <<>>]
    ELSE IF IsProductType(Or(VGet(Head(nodes), "@type", None), VGet(Head(nodes), "@type", None)))
         THEN IF Truthy(WallapopOffers(Head(nodes))) /\ WallapopOffers(Head(nodes)).t # "dict"
              THEN [raised |-> TRUE, out |-> <<>>]
              ELSE [raised |-> FALSE, out |-> WallapopProductOut(Head(nodes))]
    ELSE WallapopNodes(Tail(nodes))

\* parse_json_ld(block_text): [raised, out]
WallapopParseJsonLd(text) ==
    IF text.kind # "json" THEN [raised |-> FALSE, out |-> <<>>]
    ELSE WallapopNodes(LdNodes(text.data))

\* The loop over the blocks of fetch_item_detail: the first block with a
\* result that is not empty ends it; an exception leaves fetch_item_detail.
RECURSIVE WallapopLdLoop(_)
WallapopLdLoop(blocks) ==
    IF blocks = <<>> THEN [raised |-> FALSE, out |-> <<>>]
    ELSE LET r == WallapopParseJsonLd(Head(blocks))
         IN  IF r.raised \/ DOMAIN r.out # {} THEN r ELSE WallapopLdLoop(Tail(blocks))

\* extract_with_selectors(page)
WallapopExtractWithSelectors(dom) ==
    LET np == normalize_price(dom.raw_price)
    IN  ("title" :> Str(dom.title))
        @@ ("price" :> Str(np[1]))
        @@ ("currency" :> Str(np[2]))
        @@ ("description" :> Str(dom.description))
        @@ ("image" :> Str(dom.image))
        @@ ("condition" :> Str(IF dom.estado # <<>> THEN dom.estado ELSE dom.condicion))
        @@ ("brand" :> Str(dom.brand))
        @@ ("category" :> Str(dom.category))
        @@ ("location" :> Str(dom.location))

\* parsed = {**sel_parsed, **parsed} if parsed else sel_parsed
WallapopMerge(sel_parsed, parsed) ==
    IF DOMAIN parsed # {} THEN Merge(sel_parsed, parsed) ELSE sel_parsed

\* parsed after the two strategies
WallapopParsed(ld_out, dom) ==
    IF DOMAIN ld_out = {} \/ ~Truthy(Get(ld_out, "title", None))
    THEN WallapopMerge(WallapopExtractWithSelectors(dom), ld_out)
    ELSE ld_out

\* s.split("/")[-1]: what follows the last "/"
LastSegment(s) ==
    LET E == {i \in DOMAIN s : s[i] \in {"/", "item/", "items/", "listing/"}}
    IN  IF E = {} THEN s
        ELSE SubSeq(s, (CHOOSE i \in E : \A j \in E : j <= i) + 1, Len(s))

\* item_id of fetch_item_detail: parsed["id"], or the last segment of the URL
\* (url.split("?")[0].rstrip("/").split("/")[-1]).  The code computes it and
\* does not store it in the record.
WallapopItemId(parsed, u) ==
    IF Truthy(Or(Get(parsed, "id", None), EmptyStr)) THEN Get(parsed, "id", None)
    ELSE Str(LastSegment(RStrip(SplitHead(u, "?"), "/")))

OUTPUT_COLUMNS ==
    <<"id", "title", "price", "currency", "condition", "brand", "category", "location",
      "url", "image", "description", "seller_name", "seller_url", "timestamp_utc">>

\* normalized = {k: parsed.get(k, "") for k in OUTPUT_COLUMNS}, after url,
\* seller_name, seller_url and timestamp_utc have been set in parsed
WallapopRow(ld_out, dom, u, seller_name, seller_url, now) ==
    LET parsed == WallapopParsed(ld_out, dom)
        final  == Merge(parsed,
                        ("url" :> Or(Get(parsed, "url", None), Str(u)))
                        @@ ("seller_name" :> Str(seller_name))
                        @@ ("seller_url" :> Str(seller_url))
                        @@ ("timestamp_utc" :> Str(now)))
    IN  [k \in Range(OUTPUT_COLUMNS) |-> Get(final, k, EmptyStr)]

WallapopDom(title, raw_price, extras) ==
    [title |-> title, raw_price |-> raw_price,
     description |-> IF extras THEN <<"Nice">> ELSE <<>>,
     image |-> IF extras THEN <<"img.jpg">> ELSE <<>>,
     estado |-> <<>>, condicion |-> IF extras THEN <<"Nuevo">> ELSE <<>>,
     brand |-> <<>>, category |-> IF extras THEN <<"Hogar">> ELSE <<>>,
     location |-> <<>>]

WallapopDoms ==
    {WallapopDom(title, raw_price, extras) :
        title \in {<<>>, <<"B">>},
        raw_price \in {<<>>, <<"2", "5", " ", "€">>, <<"2", "5">>, <<" ", "€">>},
        extras \in BOOLEAN}

WallapopEmptyDom == WallapopDom(<<>>, <<>>, FALSE)

WallapopPageOf(ld, dom) == [kind |-> "wallapop", ld |-> ld, dom |-> dom]

WallapopPages(pl) ==
    IF pl = "all"
    THEN {WallapopPageOf(ld, dom) : ld \in SeqsUpTo(LdTexts, MaxBlocks), dom \in WallapopDoms}
    ELSE IF pl = "batch" THEN {WallapopPageOf(<<>>, WallapopEmptyDom)}
    ELSE {WallapopPageOf(<<Json(ProductFull)>>, WallapopEmptyDom),
          WallapopPageOf(<<>>, WallapopEmptyDom)}

WallapopProfileUrl == <<Origin("wallapop"), "/", "app/user/XXXX">>

\* In a long run ("batch") only the listings at these positions of item_urls
\* can fail to load; the others always load.
FlakyListings == {1, 30}   \* the first, and the one that would fill the first batch

\* fetch_item_detail(page, url, seller_name, seller_url)
WallapopFetch ==
    /\ site = "wallapop"
    /\ fpc = "html"
    /\ \/ \* page.goto raises (a timeout)
          /\ pool = "batch" => idx \in FlakyListings
          /\ fpc' = "raised"
          /\ UNCHANGED <<navs, page_in, row>>
       \/ \E page \in WallapopPages(pool) :
            \* the blocks are filtered with Boolean: empty texts are dropped
            LET r == WallapopLdLoop(SelectSeq(page.ld, LAMBDA b : b.kind # "empty"))
            IN  /\ navs' = navs + 1
                /\ page_in' = page
                /\ IF r.raised
                   THEN fpc' = "raised" /\ row' = row
                   ELSE /\ fpc' = "done"
                        /\ row' = WallapopRow(r.out, page.dom, item, ShopName,
                                              WallapopProfileUrl, Now)
    /\ UNCHANGED <<pool, item, attempt, waits, blocked, probe, norm>>
    /\ UNCHANGED <<dvars, rvars>>

-----------------------------------------------------------------------------
(* Vinted: parse_price_currency_from_text and the currency tables *)

\* CURRENCY_MAP; the tokens "zl" and "Kc" stand for the zloty and koruna signs
CURRENCY_MAP ==
    ("€" :> "EUR") @@ ("EUR" :> "EUR") @@ ("$" :> "USD") @@ ("USD" :> "USD")
    @@ ("£" :> "GBP") @@ ("GBP" :> "GBP") @@ ("zl" :> "PLN") @@ ("PLN" :> "PLN")
    @@ ("Kc" :> "CZK") @@ ("CZK" :> "CZK") @@ ("Ft" :> "HUF") @@ ("HUF" :> "HUF")
    @@ ("lei" :> "RON") @@ ("RON" :> "RON") @@ ("CHF" :> "CHF")
    @@ ("SEK" :> "SEK") @@ ("NOK" :> "NOK") @@ ("DKK" :> "DKK")

\* str.upper() of a token
Upper(c) ==
    CASE c = "eur" -> "EUR"
      [] c = "Eur" -> "EUR"
      [] c = "usd" -> "USD"
      [] c = "zl" -> "ZL"
      [] c = "Kc" -> "KC"
      [] c = "Ft" -> "FT"
      [] c = "ft" -> "FT"
      [] c = "lei" -> "LEI"
      [] c = "es" -> "ES"
      [] OTHER -> c

\* str.lower() of a domain label
LowerLabel(c) ==
    CASE c = "ES" -> "es"
      [] c = "UK" -> "uk"
      [] OTHER -> c

\* the currency alternative of PRICE_PATTERNS, compiled with re.I
MatchesCurrency(c) == \E k \in DOMAIN CURRENCY_MAP : Upper(k) = Upper(c)

\* default_currency_for_domain(domain); a domain is the sequence of its labels
default_currency_for_domain(domain) ==
    LET d == LowerLabel(domain[Len(domain)])
    IN  CASE d \in {"es", "fr", "de", "it", "pt", "nl", "be", "ie", "lt", "lv", "ee"} -> <<"EUR">>
          [] d = "pl" -> <<"PLN">>
          [] d = "cz" -> <<"CZK">>
          [] d = "hu" -> <<"HUF">>
          [] d = "ro" -> <<"RON">>
          [] d \in {"uk", "gb"} -> <<"GBP">>
          [] d = "se" -> <<"SEK">>
          [] d = "dk" -> <<"DKK">>
          [] d = "no" -> <<"NOK">>
          [] d = "ch" -> <<"CHF">>
          [] OTHER -> <<"EUR">>

\* t[i..i+n-1] are n digits
DigitsFrom(t, i, n) == i + n - 1 <= Len(t) /\ \A j \in i..(i + n - 1) : IsDigit(t[j])

\* how many groups [.\s]\d{3} follow each other from position p
RECURSIVE GroupRun(_, _)
GroupRun(t, p) ==
    IF p <= Len(t) /\ (t[p] = "." \/ IsSpace(t[p])) /\ DigitsFrom(t, p + 1, 3)
    THEN 1 + GroupRun(t, p + 4)
    ELSE 0

\* how many whitespace characters follow each other from position p
RECURSIVE SpaceRun(_, _)
SpaceRun(t, p) == IF p <= Len(t) /\ IsSpace(t[p]) THEN 1 + SpaceRun(t, p + 1) ELSE 0

\* The ways \d{1,3}(?:[.\s]\d{3})*(?:[.,]\d{1,2})? matches from position i:
\* <<d, g, c>> for d leading digits, g groups and c decimals (0: no decimal part).
NumCands(t, i) ==
    {x \in (1..3) \X (0..Len(t)) \X (0..2) :
        /\ DigitsFrom(t, i, x[1])
        /\ x[2] <= GroupRun(t, i + x[1])
        /\ x[3] > 0 => LET q == i + x[1] + 4 * x[2]
                       IN  q <= Len(t) /\ t[q] \in {".", ","} /\ DigitsFrom(t, q + 1, x[3])}

\* the position after the match x from i
NumEnd(i, x) == i + x[1] + 4 * x[2] + (IF x[3] > 0 THEN 1 + x[3] ELSE 0)

\* the order in which the regex engine tries the ways: greedy first
Prefer(x, y) ==
    \/ x[1] > y[1]
    \/ x[1] = y[1] /\ x[2] > y[2]
    \/ x[1] = y[1] /\ x[2] = y[2] /\ x[3] >= y[3]

Best(X) == CHOOSE x \in X : \A y \in X : Prefer(x, y)

\* PRICE_PATTERNS[0] from i: the number, \s*, the currency
P1Cands(t, i) ==
    {x \in NumCands(t, i) :
        LET e == NumEnd(i, x) + SpaceRun(t, NumEnd(i, x))
        IN  e <= Len(t) /\ MatchesCurrency(t[e])}

\* PRICE_PATTERNS[1] from i: the currency, \s*, the number
P2Cands(t, i) ==
    IF MatchesCurrency(t[i]) THEN NumCands(t, i + 1 + SpaceRun(t, i + 1)) ELSE {}

Leftmost(I) == CHOOSE i \in I : \A j \in I : i <= j

\* the groups of the match of PRICE_PATTERNS[0] that starts at i in the way x
Match1(t, i, x) ==
    [found |-> TRUE, a |-> SubSeq(t, i, NumEnd(i, x) - 1),
     b |-> <<t[NumEnd(i, x) + SpaceRun(t, NumEnd(i, x))]>>]

\* the groups of the match of PRICE_PATTERNS[1] that starts at i, the number
\* at p in the way x
Match2(t, i, p, x) == [found |-> TRUE, a |-> <<t[i]>>, b |-> SubSeq(t, p, NumEnd(p, x) - 1)]

\* the leftmost match among the starts I
LeftmostMatch1(t, I) ==
    IF I = {} THEN [found |-> FALSE]
    ELSE Match1(t, Leftmost(I), Best(P1Cands(t, Leftmost(I))))

LeftmostMatch2(t, I) ==
    IF I = {} THEN [found |-> FALSE]
    ELSE Match2(t, Leftmost(I), Leftmost(I) + 1 + SpaceRun(t, Leftmost(I) + 1),
                Best(P2Cands(t, Leftmost(I))))

\* pat.search(t) for the two patterns: [found, a, b] with a, b the two groups
Search1(t) == LeftmostMatch1(t, {i \in DOMAIN t : P1Cands(t, i) # {}})

Search2(t) == LeftmostMatch2(t, {i \in DOMAIN t : P2Cands(t, i) # {}})

\* val_raw.replace(" ", "").replace("\\u202f", "").replace(".", "").replace(",", ".")
NormaliseValue(val_raw) ==
    LET kept == SelectSeq(val_raw, LAMBDA c : c \notin {" ", "nnbsp", "."})
    IN  [i \in 1..Len(kept) |-> IF kept[i] = "," THEN "." ELSE kept[i]]

\* CURRENCY_MAP.get(curr_raw, CURRENCY_MAP.get(curr_raw.upper(), ""))
MapCurrency(curr_raw) ==
    IF Len(curr_raw) = 1 /\ curr_raw[1] \in DOMAIN CURRENCY_MAP THEN <<CURRENCY_MAP[curr_raw[1]]>>
    ELSE IF Len(curr_raw) = 1 /\ Upper(curr_raw[1]) \in DOMAIN CURRENCY_MAP
         THEN <<CURRENCY_MAP[Upper(curr_raw[1])]>>
    ELSE <<>>

\* curr_raw to the ISO code, the default of the domain when it is unknown
CurrencyOrDefault(curr, domain_hint) ==
    IF curr = <<>> THEN default_currency_for_domain(domain_hint) ELSE curr

\* the groups a, b of a match, told apart as the code does: a is the currency
\* when it holds a symbol or its upper case is a key of CURRENCY_MAP
AIsCurrency(a) ==
    \/ \E i \in DOMAIN a : a[i] \in {"€", "$", "£"}
    \/ Len(a) = 1 /\ Upper(a[1]) \in DOMAIN CURRENCY_MAP

GroupsToPair(m, domain_hint) ==
    IF AIsCurrency(m.a)
    THEN <<NormaliseValue(m.b), CurrencyOrDefault(MapCurrency(m.a), domain_hint)>>
    ELSE <<NormaliseValue(m.a), CurrencyOrDefault(MapCurrency(m.b), domain_hint)>>

\* text.replace("\xa0", " ")
ReplaceNbsp(text) == [i \in 1..Len(text) |-> IF text[i] = "nbsp" THEN " " ELSE text[i]]

\* the loop over PRICE_PATTERNS, given what the two searches find
FirstMatch(m1, m2, domain_hint) ==
    IF m1.found THEN GroupsToPair(m1, domain_hint)
    ELSE IF m2.found THEN GroupsToPair(m2, domain_hint)
    ELSE <<<<>>, <<>>>>

ParseStripped(t, domain_hint) ==
    IF t = <<>> THEN <<<<>>, <<>>>> ELSE FirstMatch(Search1(t), Search2(t), domain_hint)

\* parse_price_currency_from_text(text, domain_hint): <<val, curr>>
parse_price_currency_from_text(text, domain_hint) ==
    ParseStripped(Strip(ReplaceNbsp(text)), domain_hint)

-----------------------------------------------------------------------------
(* Vinted: fetch_item_detail_with_browser *)

VintedHeaders == <<"id", "title", "price", "currency", "url", "brand", "size", "status">>

\* f"https://www.vinted.{domain}/items/{item_id}"
VintedItemUrl(domain, item_id) ==
    <<"https://www.vinted.">> \o domain \o <<"/", "items/">> \o item_id

\* obj = data.get("item") or data.get("data") or data; data.get raises
\* AttributeError when data is no dict
VintedApiObj(data) ==
    Or(Or(VGet(data, "item", None), VGet(data, "data", None)), data)

\* the record the API attempt returns for obj
VintedApiRecord(obj, item_id, domain) ==
    LET price_field == VGet(obj, "price", EmptyStr)
        nested      == price_field.t = "dict"
        price_val   == IF nested THEN VGet(price_field, "amount", EmptyStr) ELSE price_field
        currency    == IF nested THEN VGet(price_field, "currency_code", EmptyStr)
                       ELSE Or(VGet(obj, "currency", None), VGet(obj, "currency_code", EmptyStr))
    IN  ("id" :> VGet(obj, "id", Str(item_id)))
        @@ ("title" :> VGet(obj, "title", EmptyStr))
        @@ ("price" :> price_val)
        @@ ("currency" :> Or(currency, Str(default_currency_for_domain(domain))))
        @@ ("url" :> Or(VGet(obj, "url", None), Str(VintedItemUrl(domain, item_id))))
        @@ ("brand" :> VGet(obj, "brand_title", EmptyStr))
        @@ ("size" :> VGet(obj, "size_title", EmptyStr))
        @@ ("status" :> VGet(obj, "status", EmptyStr))

\* One response of the API, r.ok: [returns, record].  r.json() that fails, a
\* body that is no dict and an obj that is no dict leave the attempt without
\* a record.
VintedApiAttempt(body, item_id, domain) ==
    IF body.kind # "json" \/ body.data.t # "dict" \/ VintedApiObj(body.data).t # "dict"
    THEN [returns |-> FALSE]
    ELSE [returns |-> TRUE, record |-> VintedApiRecord(VintedApiObj(body.data), item_id, domain)]

\* ld.get("offers") or {}
VintedOffers(ld) == Or(VGet(ld, "offers", None), EmptyDict)

\* One script whose JSON is the dict ld: title, price_val, currency and brand
\* after it, from their values acc before it.
VintedLdStep(ld, acc) ==
    [title     |-> IF ~Truthy(acc.title) THEN Or(VGet(ld, "name", EmptyStr), acc.title)
                   ELSE acc.title,
     price_val |-> IF VintedOffers(ld).t = "dict"
                   THEN Or(Or(acc.price_val, VGet(VintedOffers(ld), "price", EmptyStr)), EmptyStr)
                   ELSE acc.price_val,
     currency  |-> IF VintedOffers(ld).t = "dict"
                   THEN Or(Or(acc.currency, VGet(VintedOffers(ld), "priceCurrency", EmptyStr)),
                           EmptyStr)
                   ELSE acc.currency,
     brand     |-> IF VGet(ld, "brand", None).t = "dict" /\ ~Truthy(acc.brand)
                   THEN Or(VGet(VGet(ld, "brand", None), "name", EmptyStr), acc.brand)
                   ELSE acc.brand]

\* The loop over the ld+json scripts, inside its try.  acc holds title,
\* price_val, currency and brand; an exception (json.loads) ends the loop and
\* keeps what was assigned before; the loop ends once price and currency are
\* known.
RECURSIVE VintedLdLoop(_, _)
VintedLdAfter(next, rest) ==
    IF Truthy(next.price_val) /\ Truthy(next.currency) THEN next ELSE VintedLdLoop(rest, next)

VintedLdLoop(els, acc) ==
    IF els = <<>> THEN acc
    ELSE IF Head(els).kind = "empty" THEN VintedLdLoop(Tail(els), acc)
    ELSE IF Head(els).kind = "invalid" THEN acc
    ELSE IF Head(els).data.t # "dict" THEN VintedLdLoop(Tail(els), acc)
    ELSE VintedLdAfter(VintedLdStep(Head(els).data, acc), Tail(els))

\* _price_from_dom(page, domain_hint).  dom.testid and dom.class are the texts
\* of the two selectors, dom.spans those of the scan of span and div.
RECURSIVE FirstPrice(_, _)
FirstPriceOr(r, rest, domain_hint) ==
    IF r[1] # <<>> \/ r[2] # <<>> THEN r ELSE FirstPrice(rest, domain_hint)

FirstPrice(texts, domain_hint) ==
    IF texts = <<>> THEN <<<<>>, <<>>>>
    ELSE FirstPriceOr(parse_price_currency_from_text(Head(texts), domain_hint),
                      Tail(texts), domain_hint)

\* texts after the scan of span and div, made when no text is non-empty
WithSpans(texts, spans) ==
    IF \E i \in DOMAIN texts : texts[i] # <<>> THEN texts ELSE texts \o spans

PriceFromDom(dom, domain_hint) ==
    FirstPrice(WithSpans(dom.testid \o dom.class, dom.spans), domain_hint)

\* _pick_attr(attr_map, variants); attr_map is the sequence of its <<key, value>>
\* pairs in the order of the dict
PickFirst(attr_map, exact, loose) ==
    IF exact # {} THEN attr_map[Leftmost(exact)][2]
    ELSE IF loose # {} THEN attr_map[Leftmost(loose)][2]
    ELSE <<>>

PickAttr(attr_map, variants) ==
    PickFirst(attr_map,
              {i \in DOMAIN attr_map : Lower(attr_map[i][1]) \in variants},
              {i \in DOMAIN attr_map :
                  \E pfx \in variants : Contains(Lower(attr_map[i][1]), pfx)})

BrandVariants == {<<"marca">>, <<"brand">>, <<"marque">>, <<"marke">>, <<"merk">>,
                  <<"marca", " ", "de">>}
SizeVariants == {<<"talla">>, <<"size">>, <<"taille">>, <<"größe">>, <<"maat">>,
                 <<"taglia">>, <<"rozmiar">>}
StatusVariants == {<<"estado">>, <<"condition">>, <<"état">>, <<"zustand">>, <<"condición">>}

\* (v or "").strip() raises AttributeError when v is true and no string
StripRaises(v) == Truthy(v) /\ v.t # "str"
StripOf(v) == Str(Strip(Or(v, EmptyStr).s))

\* return {...}: every field but id and url is stripped
VintedReturn(title, price_val, currency, brand, size, status, item_id, domain) ==
    IF \E v \in {title, price_val, currency, brand, size, status} : StripRaises(v)
    THEN [raised |-> TRUE]
    ELSE [raised |-> FALSE,
          record |-> ("id" :> Str(item_id))
                     @@ ("title" :> StripOf(title))
                     @@ ("price" :> StripOf(price_val))
                     @@ ("currency" :> StripOf(currency))
                     @@ ("url" :> Str(VintedItemUrl(domain, item_id)))
                     @@ ("brand" :> StripOf(brand))
                     @@ ("size" :> StripOf(size))
                     @@ ("status" :> StripOf(status))]

\* 5) the attributes of the DOM, and the default currency
VintedAfterDom(title, price_val, currency, brand, page, item_id, domain) ==
    VintedReturn(title, price_val,
                 IF ~Truthy(currency) THEN Str(default_currency_for_domain(domain))
                 ELSE currency,
                 IF ~Truthy(brand) THEN Str(PickAttr(page.attrs, BrandVariants)) ELSE brand,
                 Str(PickAttr(page.attrs, SizeVariants)),
                 Str(PickAttr(page.attrs, StatusVariants)),
                 item_id, domain)

\* 4) the DOM, asked when the price or the currency is missing; from is
\* what _price_from_dom returns
VintedWithDom(title, price_val, currency, brand, from, page, item_id, domain) ==
    IF ~Truthy(price_val) \/ ~Truthy(currency)
    THEN VintedAfterDom(title, Or(price_val, Str(from[1])), Or(currency, Str(from[2])),
                        brand, page, item_id, domain)
    ELSE VintedAfterDom(title, price_val, currency, brand, page, item_id, domain)

\* 3) the meta tags.  page.meta holds what _get_meta returns for the five
\* properties (None when absent) and page.title what page.title() returns.
VintedAfterLd(ld, page, item_id, domain) ==
    VintedWithDom(IF ~Truthy(ld.title) THEN Or(page.meta.og_title, Str(page.title))
                  ELSE ld.title,
                  IF ~Truthy(ld.price_val)
                  THEN Or(Or(page.meta.amount, page.meta.og_amount), EmptyStr)
                  ELSE ld.price_val,
                  IF ~Truthy(ld.currency)
                  THEN Or(Or(page.meta.currency, page.meta.og_currency), EmptyStr)
                  ELSE ld.currency,
                  ld.brand, PriceFromDom(page.dom, domain), page, item_id, domain)

VintedNoFields ==
    [title |-> EmptyStr, price_val |-> EmptyStr, currency |-> EmptyStr, brand |-> EmptyStr]

\* The HTML phase after page.goto: [raised, record]
VintedHtmlRecord(page, item_id, domain) ==
    VintedAfterLd(VintedLdLoop(page.ld, VintedNoFields), page, item_id, domain)

-----------------------------------------------------------------------------
(* Vinted: what the API and the item page can answer, and the fetch *)

Domains == {<<"es">>, <<"co", ".", "uk">>}

ApiItemFull ==
    Dict("item" :> Dict(("id" :> Num(<<"1", "2">>)) @@ ("title" :> T("A"))
                        @@ ("price" :> Dict(("amount" :> Str(<<"1", "0", ".", "0">>))
                                            @@ ("currency_code" :> T("USD"))))
                        @@ ("brand_title" :> T("Zara")) @@ ("status" :> T("Nuevo"))))

\* a price that is no dict, and the currency beside it
ApiFlat == Dict(("title" :> T("A")) @@ ("price" :> Str(<<"1", "0">>)) @@ ("currency" :> T("USD")))

\* a price and no currency
ApiNoCurrency == Dict("data" :> Dict(("title" :> T("A")) @@ ("price" :> Num(<<"1", "0">>))))

\* a body without any field of an item
ApiNoItem == Dict("code" :> Num(<<"0">>))

\* a body that is a list, and an item that is a list
ApiList == List(<<T("x")>>)
ApiItemList == Dict("item" :> List(<<T("x")>>))

ApiResponse(ok, body) == [kind |-> "api", ok |-> ok, body |-> body]

VintedApiResponses(pl) ==
    IF pl = "all"
    THEN {ApiResponse(FALSE, NoText)}
         \cup {ApiResponse(TRUE, b) :
                  b \in {BadJson, Json(ApiItemFull), Json(ApiFlat), Json(ApiNoCurrency),
                         Json(ApiNoItem), Json(ApiList), Json(ApiItemList), Json(EmptyDict)}}
    ELSE {ApiResponse(FALSE, NoText), ApiResponse(TRUE, Json(ApiItemFull))}

NoMeta ==
    [og_title |-> None, amount |-> None, og_amount |-> None, currency |-> None,
     og_currency |-> None]

VintedMetas ==
    {NoMeta,
     [NoMeta EXCEPT !.og_title = T("B"), !.amount = Str(<<"1", "9", ".", "9", "9">>),
                    !.og_currency = T("USD")],
     [NoMeta EXCEPT !.og_amount = Str(<<"5">>)],
     [NoMeta EXCEPT !.currency = T("USD")]}

VintedDom(testid, class, spans) == [testid |-> testid, class |-> class, spans |-> spans]

VintedDoms ==
    {VintedDom(<<>>, <<>>, <<>>),
     VintedDom(<<<<"1", "9", ",", "9", "9", " ", "€">>>>, <<>>, <<>>),
     VintedDom(<<>>, <<<<>>>>, <<<<"Talla", " ", "M">>, <<"€", " ", "1", "0">>>>),
     VintedDom(<<<<"1", "0">>>>, <<>>, <<<<"5", " ", "€">>>>),
     VintedDom(<<>>, <<>>, <<<<"Ft", " ", "1", "0", "0">>>>)}

VintedAttrs ==
    {<<>>,
     << <<<<"marca">>, <<"Zara">>>>, <<<<"talla">>, <<"M">>>>, <<<<"estado">>, <<"Nuevo">>>> >>,
     << <<<<"estado", " ", "del", " ", "articulo">>, <<"Bueno">>>>, <<<<"estado">>, <<>>>> >>}

VintedPageOf(ld, meta, title, dom, attrs) ==
    [kind |-> "vinted", ld |-> ld, meta |-> meta, title |-> title, dom |-> dom,
     attrs |-> attrs]

\* an item page that shows nothing to extract
VintedEmptyPage == VintedPageOf(<<>>, NoMeta, <<>>, VintedDom(<<>>, <<>>, <<>>), <<>>)

VintedPages(pl) ==
    IF pl = "all"
    THEN {VintedPageOf(ld, meta, title, dom, attrs) :
             ld \in SeqsUpTo(LdTexts, MaxBlocks), meta \in VintedMetas,
             title \in {<<>>, <<"Lamp">>}, dom \in VintedDoms, attrs \in VintedAttrs}
    ELSE {VintedEmptyPage,
          VintedPageOf(<<Json(ProductFull)>>, NoMeta, <<"Lamp">>, VintedDom(<<>>, <<>>, <<>>), <<>>)}

\* One turn of the loop over the two API URLs; attempt counts the URLs tried.
VintedApi ==
    /\ site = "vinted"
    /\ fpc = "api"
    /\ \/ \* req.get raises (a timeout)
          /\ fpc' = "raised"
          /\ UNCHANGED <<attempt, navs, page_in, row>>
       \/ \E resp \in VintedApiResponses(pool) :
            LET a == IF resp.ok THEN VintedApiAttempt(resp.body, item, VINTED_DOMAIN)
                     ELSE [returns |-> FALSE]
            IN  /\ navs' = navs + 1
                /\ IF a.returns
                   THEN /\ fpc' = "done"
                        /\ row' = a.record
                        /\ page_in' = resp
                        /\ attempt' = attempt
                   ELSE /\ fpc' = IF attempt = 2 THEN "html" ELSE "api"
                        /\ attempt' = attempt + 1
                        /\ UNCHANGED <<page_in, row>>
    /\ UNCHANGED <<pool, item, waits, blocked, probe, norm>>
    /\ UNCHANGED <<dvars, rvars>>

\* page.goto(item_url) and the HTML strategies
VintedHtml ==
    /\ site = "vinted"
    /\ fpc = "html"
    /\ \/ \* page.goto raises (a timeout)
          /\ fpc' = "raised"
          /\ UNCHANGED <<navs, page_in, row>>
       \/ \E page \in VintedPages(pool) :
            LET r == VintedHtmlRecord(page, item, VINTED_DOMAIN)
            IN  /\ navs' = navs + 1
                /\ page_in' = page
                /\ IF r.raised
                   THEN fpc' = "raised" /\ row' = row
                   ELSE fpc' = "done" /\ row' = r.record
    /\ UNCHANGED <<pool, item, attempt, waits, blocked, probe, norm>>
    /\ UNCHANGED <<dvars, rvars>>

-----------------------------------------------------------------------------
(* One detail fetch alone, against every listing page *)

DiscoveryIdle ==
    /\ mode = "free"
    /\ dpc = "idle"
    /\ iters = 0
    /\ page_num = 1
    /\ seen = {}
    /\ stable_rounds = 0
    /\ last_count = 0
    /\ slash = FALSE
    /\ result = <<>>
    /\ shown = {}
    /\ index_titles = {}

\* the listing fetched: what discovery returns for listing 12
DetailUrls(s) == {Canonical(s, 12)}

FetchStart(s) == IF s = "etsy" THEN "goto" ELSE IF s = "vinted" THEN "api" ELSE "html"

DetailInit ==
    /\ site \in Sites
    /\ DiscoveryIdle
    /\ RunIdle
    /\ VINTED_DOMAIN \in (IF site = "vinted" THEN Domains ELSE {<<"es">>})
    /\ pool = "all"
    /\ item \in DetailUrls(site)
    /\ fpc = FetchStart(site)
    /\ attempt = 1
    /\ navs = 0
    /\ waits = <<>>
    /\ blocked = FALSE
    /\ page_in = NoPage
    /\ row = NoRow
    /\ probe = NoProbe
    /\ norm = NoNorm

DetailNext ==
    EtsyGoto \/ EtsyBackoff \/ EtsyExtract \/ VintedApi \/ VintedHtml \/ WallapopFetch

SpecDetail == DetailInit /\ [][DetailNext]_vars

-----------------------------------------------------------------------------
(* Detail extraction: the claims *)

\* the fields of a record that describe the listing, besides id and url
DataFields(s) ==
    CASE s = "etsy" -> {"title", "price", "currency", "availability", "category", "tags",
                        "image", "description"}
      [] s = "vinted" -> {"title", "price", "currency", "brand", "size", "status"}
      [] s = "wallapop" -> {"title", "price", "currency", "condition", "brand", "category",
                            "location", "image", "description"}

\* a stub record: id and url, and no other data
Stub(r, s) ==
    /\ Truthy(r["id"])
    /\ Truthy(r["url"])
    /\ \A k \in DataFields(s) : r[k] = EmptyStr

\* the result of the earlier strategy (JSON-LD) on the page the row came from
EarlierResult ==
    CASE page_in.kind = "etsy" -> EtsyLdLoop(page_in.ld, <<>>)
      [] page_in.kind = "wallapop" ->
            WallapopLdLoop(SelectSeq(page_in.ld, LAMBDA b : b.kind # "empty")).out
      [] page_in.kind = "vinted" ->
            LET ld == VintedLdLoop(page_in.ld, VintedNoFields)
            IN  ("title" :> ld.title) @@ ("price" :> ld.price_val)
                @@ ("currency" :> ld.currency)
      [] OTHER -> <<>>

\* the result of the later strategy (DOM / selectors; the meta tags in Vinted)
LaterResult ==
    CASE page_in.kind = "etsy" -> EtsyFallbackFromDom(page_in.dom)
      [] page_in.kind = "wallapop" -> WallapopExtractWithSelectors(page_in.dom)
      [] page_in.kind = "vinted" ->
            ("title" :> Or(page_in.meta.og_title, Str(page_in.title)))
            @@ ("price" :> Or(Or(page_in.meta.amount, page_in.meta.og_amount), EmptyStr))
            @@ ("currency" :> Or(Or(page_in.meta.currency, page_in.meta.og_currency),
                                 EmptyStr))
      [] OTHER -> <<>>

\* the later strategy ran and its result was merged with the earlier one
Merged ==
    /\ fpc = "done"
    /\ \/ page_in.kind = "vinted"
       \/ page_in.kind \in {"etsy", "wallapop"}
          /\ ~Truthy(Get(EarlierResult, "title", None))

\* C4 (Merge priority): in a record merged from the JSON-LD result and the
\* result of a later strategy, a field that is non-empty in the JSON-LD result
\* keeps that value, and a field that is empty or absent there and non-empty
\* in the later result takes the later value.
C4_MergePriority ==
    Merged =>
        \A k \in DOMAIN LaterResult :
            IF Truthy(Get(EarlierResult, k, EmptyStr))
            THEN row[k] = EarlierResult[k]
            ELSE Truthy(LaterResult[k]) => row[k] = LaterResult[k]

\* C4 holds of the Vinted HTML strategies, which fill each field with "or".
MergePriorityVinted == (Merged /\ site = "vinted") => C4_MergePriority

\* no strategy extracts a field from the page the row came from
NothingExtractable ==
    CASE page_in.kind = "etsy" ->
            ~blocked /\ page_in.dom = EtsyEmptyDom /\ EarlierResult = <<>>
      [] page_in.kind = "wallapop" ->
            page_in.dom = WallapopEmptyDom /\ EarlierResult = <<>>
      [] page_in.kind = "vinted" ->
            /\ page_in.meta = NoMeta /\ page_in.title = <<>>
            /\ page_in.dom = VintedDom(<<>>, <<>>, <<>>) /\ page_in.attrs = <<>>
            /\ VintedLdLoop(page_in.ld, VintedNoFields) = VintedNoFields
      [] OTHER -> FALSE

\* C5 (Stub record): a listing from which no strategy extracts any field
\* yields a record with non-empty id and url and every other data field the
\* empty string.
C5_StubRecord == (fpc = "done" /\ NothingExtractable) => Stub(row, site)

\* C5 holds of Etsy fetch_item.
StubRecordEtsy == (fpc = "done" /\ NothingExtractable /\ site = "etsy") => Stub(row, site)

\* C6 (Price/currency pairing): in every record a detail extractor returns,
\* price and currency are both empty or both non-empty.
C6_PriceCurrencyPaired ==
    fpc = "done" => (Truthy(row["price"]) <=> Truthy(row["currency"]))

\* C10 (Retry cap and degraded result): fetch_item navigates at most 3 times
\* and backs off at most 2 times; a page still blocked on the last attempt is
\* neither retried nor an exception, and the listing yields a stub record.
C10_RetryCapDegraded ==
    site = "etsy" =>
        /\ navs <= 3
        /\ Len(waits) <= 2
        /\ (navs = 3 /\ blocked) => fpc \in {"extract", "done"}
        /\ (fpc = "done" /\ blocked) => Stub(row, "etsy")

\* The part of C10 about the retry cap holds.
RetryCap ==
    site = "etsy" =>
        /\ navs <= EtsyMaxAttempts
        /\ Len(waits) <= EtsyMaxAttempts - 1
        /\ (navs = 3 /\ blocked) => fpc \in {"extract", "done"}

\* no strategy supplied an id for the listing the row came from (only the
\* JSON-LD strategy can: sku or productID)
NoExplicitId ==
    /\ fpc = "done"
    /\ page_in.kind \in {"etsy", "wallapop"}
    /\ ~Truthy(Get(EarlierResult, "id", EmptyStr))

\* C15 (ID derivation): when no strategy supplies an id, the record returned
\* by Etsy fetch_item or Wallapop fetch_item_detail has as its id the
\* identifier in the listing URL (12 for the listing fetched here).
C15_IdDerivation == NoExplicitId => row["id"] = Str(Digits(12))

\* C15 holds of Etsy fetch_item.
IdDerivationEtsy == (NoExplicitId /\ site = "etsy") => row["id"] = Str(Digits(12))

\* Wallapop fetch_item_detail derives the id and drops it: the record has the
\* id of the JSON-LD block, the empty string when there is none.
IdWallapop ==
    (fpc = "done" /\ site = "wallapop") => row["id"] = Get(EarlierResult, "id", EmptyStr)

\* a structured-data block that is invalid JSON
InvalidJson(b) == b.kind = "invalid"

\* ... or a list whose elements are no objects describing a product
Malformed(b) == InvalidJson(b) \/ (b.kind = "json" /\ b.data = NoProductList)

\* the page without its invalid blocks / without its malformed blocks
WithoutInvalid(page) == [page EXCEPT !.ld = SelectSeq(page.ld, LAMBDA b : ~InvalidJson(b))]

WithoutMalformed(page) == [page EXCEPT !.ld = SelectSeq(page.ld, LAMBDA b : ~Malformed(b))]

\* what the extractor of the site makes of a listing page
Outcome(page) ==
    CASE page.kind = "etsy" ->
            [raised |-> FALSE,
             record |-> EtsyRow(page, item, ShopName, EtsyShopUrl(slash), Now)]
      [] page.kind = "wallapop" ->
            LET r == WallapopLdLoop(SelectSeq(page.ld, LAMBDA b : b.kind # "empty"))
            IN  IF r.raised THEN [raised |-> TRUE]
                ELSE [raised |-> FALSE,
                      record |-> WallapopRow(r.out, page.dom, item, ShopName,
                                             WallapopProfileUrl, Now)]
      [] page.kind = "vinted" -> VintedHtmlRecord(page, item, VINTED_DOMAIN)

\* the extractor has dealt with a listing page
PageHandled == fpc \in {"done", "raised"} /\ page_in.kind \in {"etsy", "wallapop", "vinted"}

\* C17 (ParseError containment): a block that is invalid JSON, or a list
\* whose elements are no objects, is passed over and nothing more: it raises
\* nothing, and the other blocks and the later strategies run as they do on
\* the page without it, so the extractor returns the record it returns for
\* that page.
C17_ParseErrorContained ==
    PageHandled =>
        /\ (fpc = "raised") <=> Outcome(WithoutMalformed(page_in)).raised
        /\ fpc = "done" => row = Outcome(WithoutMalformed(page_in)).record

\* No extractor raises on a block of invalid JSON, and Wallapop passes over
\* such a block as C17 says.
InvalidJsonContained ==
    PageHandled =>
        /\ (fpc = "raised" /\ site = "vinted") =>
                \E i \in DOMAIN page_in.ld : page_in.ld[i].kind = "json"
        /\ site = "wallapop" =>
                /\ (fpc = "raised") <=> Outcome(WithoutInvalid(page_in)).raised
                /\ fpc = "done" => row = Outcome(WithoutInvalid(page_in)).record

\* the blocks of the page are one block of invalid JSON
OnlyInvalidJson == page_in.kind \in {"etsy", "wallapop", "vinted"} /\ page_in.ld = <<BadJson>>

\* The page of C17's example: an invalid block, product:price:amount 19.99
\* and og:price:currency USD give price "19.99" and currency "USD".
ParseErrorExample ==
    (fpc \in {"done", "raised"} /\ site = "vinted" /\ OnlyInvalidJson
        /\ page_in.meta.amount = Str(<<"1", "9", ".", "9", "9">>)
        /\ page_in.meta.og_currency = T("USD")) =>
            /\ fpc = "done"
            /\ row["price"] = Str(<<"1", "9", ".", "9", "9">>)
            /\ row["currency"] = T("USD")

\* A page whose only block is invalid JSON gives what the page without it gives.
OnlyInvalidJsonContained ==
    (PageHandled /\ OnlyInvalidJson) =>
        /\ fpc = "done"
        /\ row = Outcome(WithoutInvalid(page_in)).record

\* the record came from the structured API (Vinted), which ended the cascade
FromApi == fpc = "done" /\ page_in.kind = "api"

\* the record came from a listing page whose JSON-LD gave a title
TitleFromJsonLd ==
    /\ fpc = "done"
    /\ page_in.kind \in {"etsy", "wallapop", "vinted"}
    /\ Truthy(Get(EarlierResult, "title", EmptyStr))

\* no later strategy has put anything into the record
NothingFromLater ==
    \A k \in DOMAIN LaterResult : ~Truthy(Get(EarlierResult, k, EmptyStr)) => ~Truthy(row[k])

\* C19 (Early stop on title): a strategy ends the cascade only if the title
\* is non-empty after it (the structured API of Vinted does not return a
\* record with an empty title), and once the title is non-empty no later
\* strategy is attempted (nothing in the record comes from one).
C19_EarlyStopOnTitle ==
    /\ FromApi => Truthy(row["title"])
    /\ TitleFromJsonLd => NothingFromLater

\* C19 holds of Etsy fetch_item and Wallapop fetch_item_detail.
EarlyStopEtsyWallapop == (TitleFromJsonLd /\ site # "vinted") => NothingFromLater

\* The structured API of Vinted ends the cascade whenever its answer holds a
\* dict, whatever the title.
VintedApiEnds ==
    (fpc = "done" /\ site = "vinted" /\ page_in.kind = "api") =>
        /\ page_in.ok
        /\ page_in.body.kind = "json"
        /\ row["title"] = VGet(VintedApiObj(page_in.body.data), "title", EmptyStr)

-----------------------------------------------------------------------------
(* backoff alone, for any attempt, and within the retry loop of fetch_item *)

\* backoff(k) and then backoff(k + 1), with jitters j1 and j2
BackoffProbe ==
    /\ site = "etsy"
    /\ fpc = "goto"
    /\ navs = 0
    /\ probe = NoProbe
    /\ \E k \in 1..MaxAttempt, j1 \in Jitters, j2 \in Jitters :
        probe' = [k |-> k, wait |-> BackoffWait(k, j1), next |-> BackoffWait(k + 1, j2)]
    /\ fpc' = "idle"
    /\ UNCHANGED <<pool, item, attempt, navs, waits, blocked, page_in, row, norm>>
    /\ UNCHANGED <<dvars, rvars>>

BackoffInit ==
    /\ site = "etsy"
    /\ DiscoveryIdle
    /\ RunIdle
    /\ VINTED_DOMAIN = <<"es">>
    /\ pool = "few"
    /\ item \in DetailUrls(site)
    /\ fpc = "goto"
    /\ attempt = 1
    /\ navs = 0
    /\ waits = <<>>
    /\ blocked = FALSE
    /\ page_in = NoPage
    /\ row = NoRow
    /\ probe = NoProbe
    /\ norm = NoNorm

BackoffNext == BackoffProbe \/ EtsyGoto \/ EtsyBackoff \/ EtsyExtract

SpecBackoff == BackoffInit /\ [][BackoffNext]_vars

\* C9 (Backoff monotonicity), as stated: for any consecutive attempts k, k + 1
\* (k >= 1) and any jitter draws the wait of attempt k + 1 is not smaller than
\* the wait of attempt k, and a fetch waits at most as often as it may retry.
C9_BackoffMonotone ==
    /\ probe # NoProbe => probe.next >= probe.wait
    /\ Len(waits) <= 2

\* C9 as amended: the waits of attempts k and k + 1 do not decrease for k in
\* 1..3 (the base is capped at 20 from attempt 4 on, and only the jitter is
\* left); fetch_item calls backoff with attempts 1 and 2 only, at most twice
\* per listing, and its waits do not decrease.
C9_BackoffMonotoneUpTo3 ==
    /\ (probe # NoProbe /\ probe.k <= 3) => probe.next >= probe.wait
    /\ Len(waits) <= 2
    /\ \A i \in 1..(Len(waits) - 1) : waits[i + 1] >= waits[i]

\* C9's case: backoff(3) with the largest jitter, then backoff(4) with none.
C9_Witness ==
    /\ probe # NoProbe
    /\ probe.k = 3
    /\ probe.wait = BackoffBase(3) * JitterRes + 2 * JitterRes
    /\ probe.next = BackoffBase(4) * JitterRes

\* a fetch that met the block page three times and backed off twice
BackedOffTwice == Len(waits) = 2 /\ fpc = "done"

-----------------------------------------------------------------------------
(* parse_price_currency_from_text alone, on every short text, and again on
   the text of the pair it returned *)

MaxPriceLen == 5

PriceAlphabet == {"1", "9", ".", ",", " ", "€", "EUR"}

PriceTexts == SeqsUpTo(PriceAlphabet, MaxPriceLen)

\* val, curr = parse_price_currency_from_text(text, domain)
NormalizePrice ==
    /\ norm.pc = "text"
    /\ norm' = [pc |-> "once", text |-> norm.text,
                pair |-> parse_price_currency_from_text(norm.text, VINTED_DOMAIN)]
    /\ UNCHANGED <<pool, item, fpc, attempt, navs, waits, blocked, page_in, row, probe>>
    /\ UNCHANGED <<dvars, rvars>>

\* the same call on the text made of the value and the currency returned,
\* with or without a space between them
NormalizeAgain ==
    /\ norm.pc = "once"
    /\ norm.pair[1] # <<>>
    /\ \E sep \in {<<>>, <<" ">>} :
        norm' = [pc |-> "twice", text |-> norm.text, pair |-> norm.pair,
                 again |-> parse_price_currency_from_text(
                               norm.pair[1] \o sep \o norm.pair[2], VINTED_DOMAIN)]
    /\ UNCHANGED <<pool, item, fpc, attempt, navs, waits, blocked, page_in, row, probe>>
    /\ UNCHANGED <<dvars, rvars>>

PriceInit ==
    /\ site = "vinted"
    /\ DiscoveryIdle
    /\ RunIdle
    /\ VINTED_DOMAIN \in Domains
    /\ pool = "few"
    /\ item = <<>>
    /\ fpc = "idle"
    /\ attempt = 0
    /\ navs = 0
    /\ waits = <<>>
    /\ blocked = FALSE
    /\ page_in = NoPage
    /\ row = NoRow
    /\ probe = NoProbe
    /\ norm \in {[pc |-> "text", text |-> t] : t \in PriceTexts}

PriceNext == NormalizePrice \/ NormalizeAgain

SpecPrice == PriceInit /\ [][PriceNext]_vars

\* the value is a decimal string: digits, a "." and one or two digits
IsDecimal(v) ==
    /\ Len(v) >= 3
    /\ \E d \in 1..2 :
        /\ Len(v) - d >= 2
        /\ v[Len(v) - d] = "."
        /\ \A i \in DOMAIN v : i # Len(v) - d => IsDigit(v[i])

\* C16 (Idempotent price normalization): for a pair (v, c) that
\* parse_price_currency_from_text has returned (v digits with at most a "."
\* as decimal separator, c an ISO code), the call on the text made of v and c
\* returns (v, c) again.
C16_NormalizeIdempotent ==
    norm.pc = "twice" => norm.again = norm.pair

\* C16 holds of the pairs whose value is a whole number.
NormalizeIdempotentWhole ==
    (norm.pc = "twice" /\ \A i \in DOMAIN norm.pair[1] : IsDigit(norm.pair[1][i]))
        => norm.again = norm.pair

\* A value with decimals loses its "." in the second call: thousands
\* separators are removed before the decimal comma becomes a "."
DecimalPointLost ==
    (norm.pc = "twice" /\ IsDecimal(norm.pair[1])) =>
        /\ norm.again # norm.pair
        /\ \A i \in DOMAIN norm.again[1] : norm.again[1][i] # "."

-----------------------------------------------------------------------------
(* The orchestrators: Etsy run, Vinted main, Wallapop run *)

\* the row of the header
HeaderRow(headers) == [i \in 1..Len(headers) |-> Str(<<headers[i]>>)]

\* [r.get(k, "") for k in HEADERS]
CellsOf(headers, r) == [i \in 1..Len(headers) |-> Get(r, headers[i], EmptyStr)]

HeadersOf(s) ==
    CASE s = "etsy" -> EtsyHeaders
      [] s = "vinted" -> VintedHeaders
      [] s = "wallapop" -> OUTPUT_COLUMNS

\* ws.clear(); ws.update("A1:..1", [HEADERS])
write_headers(s) == <<HeaderRow(HeadersOf(s))>>

\* Etsy / Vinted write_rows: ws.update("A2:..", values) over what the sheet holds
write_rows(sh, s, rs) ==
    IF rs = <<>> THEN sh
    ELSE [i \in 1..(IF Len(sh) > Len(rs) + 1 THEN Len(sh) ELSE Len(rs) + 1) |->
            IF i = 1 THEN sh[1]
            ELSE IF i <= Len(rs) + 1 THEN CellsOf(HeadersOf(s), rs[i - 1])
            ELSE sh[i]]

\* Wallapop write_rows: ws.append_rows(values)
WallapopWriteRows(sh, rs) ==
    IF rs = <<>> THEN sh
    ELSE sh \o [i \in 1..Len(rs) |-> CellsOf(OUTPUT_COLUMNS, rs[i])]

\* Wallapop get_sheet: the header is rewritten, and the sheet cut to two rows,
\* when row 1 is not OUTPUT_COLUMNS
get_sheet(sh) ==
    IF sh # <<>> /\ sh[1] = HeaderRow(OUTPUT_COLUMNS) THEN sh
    ELSE <<HeaderRow(OUTPUT_COLUMNS)>> \o (IF Len(sh) >= 2 THEN <<sh[2]>> ELSE <<>>)

\* a row of a sheet left by an earlier run
OldRow(s) == [i \in 1..Len(HeadersOf(s)) |-> Str(<<"old">>)]

SheetsBefore(s) == {<<>>, <<HeaderRow(HeadersOf(s)), OldRow(s), OldRow(s), OldRow(s)>>}

\* Wallapop: len(rows_to_write) >= 30
WallapopBatch == 30

FlushDue(n) == n >= WallapopBatch

\* a call write_rows(ws, rs): ok when append_rows returned, not when it raised
Call(rs, ok) == [rows |-> rs, ok |-> ok]

\* the locals of a discovery function when it is entered
DiscoveryEnter ==
    /\ dpc' = "loop"
    /\ iters' = 0
    /\ page_num' = 1
    /\ seen' = {}
    /\ stable_rounds' = 0
    /\ last_count' = 0
    /\ result' = <<>>
    /\ shown' = {}
    /\ index_titles' = {}
    /\ UNCHANGED <<site, mode, slash>>

\* ... and when it has returned
DiscoveryLeave ==
    /\ dpc' = "idle"
    /\ iters' = 0
    /\ page_num' = 1
    /\ seen' = {}
    /\ stable_rounds' = 0
    /\ last_count' = 0
    /\ result' = <<>>
    /\ shown' = {}
    /\ index_titles' = {}
    /\ UNCHANGED <<site, mode, slash>>

\* a call of the detail extractor for item_urls[idx]
FetchEnter ==
    /\ item' = item_urls[idx]
    /\ fpc' = FetchStart(site)
    /\ attempt' = 1
    /\ navs' = 0
    /\ waits' = <<>>
    /\ blocked' = FALSE
    /\ page_in' = NoPage
    /\ row' = NoRow
    /\ attempted' = Append(attempted, item_urls[idx])
    /\ UNCHANGED <<pool, probe, norm>>

\* ... and its end
FetchLeave ==
    /\ fpc' = "idle"
    /\ UNCHANGED <<pool, item, attempt, navs, waits, blocked, page_in, row, probe, norm>>

\* browser.close()
BrowserClose(o) == o - 1

\* a with block that forgets the browsers it launched
WithExitLeaks(o) == o

\* the with sync_playwright() block is left, by its end, a return or an
\* exception: the driver is stopped and no browser it launched stays open
WithExit(o) == 0

\* whether a request to the spreadsheet gets through
SheetUp == BOOLEAN

\* Etsy: the check of the configuration at import, then run() up to the call
\* of collect_shop_item_urls
EtsyRunStart ==
    /\ site = "etsy"
    /\ rpc = "start"
    /\ IF ~(cfg.profile /\ cfg.sheet /\ cfg.creds)
       THEN /\ rpc' = "exit"
            /\ UNCHANGED <<sheet, open, launched, net>>
            /\ UNCHANGED dvars
       ELSE /\ net' = TRUE
            /\ \E up \in SheetUp :
                IF up
                THEN /\ rpc' = "discover"
                     /\ sheet' = write_headers("etsy")
                     /\ open' = open + 1
                     /\ launched' = launched + 1
                     /\ DiscoveryEnter
                ELSE /\ rpc' = "unreachable"
                     /\ UNCHANGED <<sheet, open, launched>>
                     /\ UNCHANGED dvars
    /\ UNCHANGED <<cfg, VINTED_DOMAIN, item_urls, idx, rows, attempted, handed>>
    /\ UNCHANGED fvars

\* shop_name, shop_url, item_urls = collect_shop_item_urls(...), or the
\* exception of a navigation, which leaves run through the with block
EtsyRunDiscovered ==
    /\ site = "etsy"
    /\ rpc = "discover"
    /\ dpc \in {"done", "raised"}
    /\ IF dpc = "done"
       THEN /\ item_urls' = result
            /\ idx' = 1
            /\ rows' = <<>>
            /\ rpc' = "loop"
            /\ open' = open
       ELSE /\ rpc' = "failed"
            /\ open' = WithExit(open)
            /\ UNCHANGED <<item_urls, idx, rows>>
    /\ DiscoveryLeave
    /\ UNCHANGED <<cfg, VINTED_DOMAIN, sheet, attempted, launched, net, handed>>
    /\ UNCHANGED fvars

\* the head of the for loop; after the loop the browser is closed, the with
\* block left and the rows are written
EtsyRunLoop ==
    /\ site = "etsy"
    /\ rpc = "loop"
    /\ IF idx <= Len(item_urls)
       THEN /\ rpc' = "fetching"
            /\ FetchEnter
            /\ UNCHANGED <<sheet, open>>
       ELSE /\ open' = WithExit(BrowserClose(open))
            /\ \E up \in (IF rows = <<>> THEN {TRUE} ELSE SheetUp) :
                /\ rpc' = IF up THEN "done" ELSE "unreachable"
                /\ sheet' = IF up THEN write_rows(sheet, "etsy", rows) ELSE sheet
            /\ UNCHANGED <<attempted>>
            /\ UNCHANGED fvars
    /\ UNCHANGED <<cfg, VINTED_DOMAIN, item_urls, idx, rows, launched, net, handed>>
    /\ UNCHANGED dvars

\* try: rows.append(fetch_item(...)) / except Exception: print
EtsyRunAfterFetch ==
    /\ site = "etsy"
    /\ rpc = "fetching"
    /\ fpc \in {"done", "raised"}
    /\ rows' = IF fpc = "done" THEN Append(rows, row) ELSE rows
    /\ idx' = idx + 1
    /\ rpc' = "loop"
    /\ FetchLeave
    /\ UNCHANGED <<cfg, VINTED_DOMAIN, item_urls, sheet, attempted, open, launched, net, handed>>
    /\ UNCHANGED dvars

\* Vinted: the check of the configuration and the opening of the sheet at
\* import, then main() up to the call of collect_item_ids_with_browser
VintedMainStart ==
    /\ site = "vinted"
    /\ rpc = "start"
    /\ IF ~(cfg.sheet /\ cfg.creds)
       THEN /\ rpc' = "exit"
            /\ UNCHANGED <<sheet, open, launched, net>>
            /\ UNCHANGED dvars
       ELSE /\ net' = TRUE
            /\ \E up \in SheetUp :
                IF ~up
                THEN /\ rpc' = "unreachable"
                     /\ UNCHANGED <<sheet, open, launched>>
                     /\ UNCHANGED dvars
                ELSE /\ sheet' = write_headers("vinted")
                     /\ IF ~cfg.profile
                        THEN /\ rpc' = "exit"
                             /\ UNCHANGED <<open, launched>>
                             /\ UNCHANGED dvars
                        ELSE /\ rpc' = "discover"
                             /\ open' = open + 1
                             /\ launched' = launched + 1
                             /\ DiscoveryEnter
    /\ UNCHANGED <<cfg, VINTED_DOMAIN, item_urls, idx, rows, attempted, handed>>
    /\ UNCHANGED fvars

\* ids = collect_item_ids_with_browser(...), which closes its browser and
\* leaves its with block, or the exception that left it; if not ids: return
VintedMainDiscovered ==
    /\ site = "vinted"
    /\ rpc = "discover"
    /\ dpc \in {"done", "raised"}
    /\ IF dpc = "done"
       THEN /\ item_urls' = result
            /\ idx' = 1
            /\ rows' = <<>>
            /\ open' = WithExit(BrowserClose(open))
            /\ rpc' = IF result = <<>> THEN "done" ELSE "loop"
       ELSE /\ rpc' = "failed"
            /\ open' = WithExit(open)
            /\ UNCHANGED <<item_urls, idx, rows>>
    /\ DiscoveryLeave
    /\ UNCHANGED <<cfg, VINTED_DOMAIN, sheet, attempted, launched, net, handed>>
    /\ UNCHANGED fvars

\* the head of the for loop: fetch_item_detail_with_browser launches a
\* browser of its own; after the loop the items are written
VintedMainLoop ==
    /\ site = "vinted"
    /\ rpc = "loop"
    /\ IF idx <= Len(item_urls)
       THEN /\ rpc' = "fetching"
            /\ open' = open + 1
            /\ launched' = launched + 1
            /\ FetchEnter
            /\ UNCHANGED <<sheet>>
       ELSE /\ \E up \in (IF rows = <<>> THEN {TRUE} ELSE SheetUp) :
                /\ rpc' = IF up THEN "done" ELSE "unreachable"
                /\ sheet' = IF up THEN write_rows(sheet, "vinted", rows) ELSE sheet
            /\ UNCHANGED <<attempted, open, launched>>
            /\ UNCHANGED fvars
    /\ UNCHANGED <<cfg, VINTED_DOMAIN, item_urls, idx, rows, net, handed>>
    /\ UNCHANGED dvars

\* items.append(fetch_item_detail_with_browser(...)): no try around it, an
\* exception leaves main.  The extractor closes its browser before it returns;
\* an exception leaves it through its with block.
VintedMainAfterFetch ==
    /\ site = "vinted"
    /\ rpc = "fetching"
    /\ fpc \in {"done", "raised"}
    /\ IF fpc = "done"
       THEN /\ rows' = Append(rows, row)
            /\ idx' = idx + 1
            /\ rpc' = "loop"
            /\ open' = WithExit(BrowserClose(open))
       ELSE /\ rpc' = "aborted"
            /\ open' = WithExit(open)
            /\ UNCHANGED <<rows, idx>>
    /\ FetchLeave
    /\ UNCHANGED <<cfg, VINTED_DOMAIN, item_urls, sheet, attempted, launched, net, handed>>
    /\ UNCHANGED dvars

\* Wallapop run() up to the call of collect_profile_item_urls: the profile
\* URL is checked in run, the credentials and then the sheet id in get_sheet
\* (gspread.authorize between them sends nothing)
WallapopRunStart ==
    /\ site = "wallapop"
    /\ rpc = "start"
    /\ IF ~(cfg.profile /\ cfg.creds /\ cfg.sheet)
       THEN /\ rpc' = "exit"
            /\ UNCHANGED <<sheet, open, launched, net>>
            /\ UNCHANGED dvars
       ELSE /\ net' = TRUE
            /\ \E up \in SheetUp :
                IF up
                THEN /\ rpc' = "discover"
                     /\ sheet' = get_sheet(sheet)
                     /\ open' = open + 1
                     /\ launched' = launched + 1
                     /\ DiscoveryEnter
                ELSE /\ rpc' = "unreachable"
                     /\ UNCHANGED <<sheet, open, launched>>
                     /\ UNCHANGED dvars
    /\ UNCHANGED <<cfg, VINTED_DOMAIN, item_urls, idx, rows, attempted, handed>>
    /\ UNCHANGED fvars

\* seller_name, seller_url, item_urls = collect_profile_item_urls(...), or the
\* exception of a navigation, which leaves run through the with block
WallapopRunDiscovered ==
    /\ site = "wallapop"
    /\ rpc = "discover"
    /\ dpc \in {"done", "raised"}
    /\ IF dpc = "done"
       THEN /\ item_urls' = result
            /\ idx' = 1
            /\ rows' = <<>>
            /\ rpc' = "loop"
            /\ open' = open
       ELSE /\ rpc' = "failed"
            /\ open' = WithExit(open)
            /\ UNCHANGED <<item_urls, idx, rows>>
    /\ DiscoveryLeave
    /\ UNCHANGED <<cfg, VINTED_DOMAIN, sheet, attempted, launched, net, handed>>
    /\ UNCHANGED fvars

\* the head of the for loop; after the loop the rows left are written and the
\* browser is closed, all inside the with block
WallapopRunLoop ==
    /\ site = "wallapop"
    /\ rpc = "loop"
    /\ IF idx <= Len(item_urls)
       THEN /\ rpc' = "fetching"
            /\ FetchEnter
            /\ UNCHANGED <<sheet, open, handed>>
       ELSE /\ \E up \in (IF rows = <<>> THEN {TRUE} ELSE SheetUp) :
                /\ rpc' = IF up THEN "done" ELSE "unreachable"
                /\ sheet' = IF up THEN WallapopWriteRows(sheet, rows) ELSE sheet
                /\ handed' = IF rows = <<>> THEN handed ELSE Append(handed, Call(rows, up))
                /\ open' = IF up THEN WithExit(BrowserClose(open)) ELSE WithExit(open)
            /\ UNCHANGED <<attempted>>
            /\ UNCHANGED fvars
    /\ UNCHANGED <<cfg, VINTED_DOMAIN, item_urls, idx, rows, launched, net>>
    /\ UNCHANGED dvars

\* try: the row is appended and a batch of 30 written / except Exception:
\* print.  A write that fails is caught too: rows_to_write keeps its rows.
WallapopRunAfterFetch ==
    /\ site = "wallapop"
    /\ rpc = "fetching"
    /\ fpc \in {"done", "raised"}
    /\ IF fpc = "done"
       THEN IF FlushDue(Len(rows) + 1)
            THEN \E up \in SheetUp :
                    /\ handed' = Append(handed, Call(Append(rows, row), up))
                    /\ IF up
                       THEN /\ sheet' = WallapopWriteRows(sheet, Append(rows, row))
                            /\ rows' = <<>>
                       ELSE /\ rows' = Append(rows, row)
                            /\ sheet' = sheet
            ELSE /\ rows' = Append(rows, row)
                 /\ sheet' = sheet
                 /\ handed' = handed
       ELSE UNCHANGED <<rows, sheet, handed>>
    /\ idx' = idx + 1
    /\ rpc' = "loop"
    /\ FetchLeave
    /\ UNCHANGED <<cfg, VINTED_DOMAIN, item_urls, attempted, open, launched, net>>
    /\ UNCHANGED dvars

RunInit ==
    /\ site \in Sites
    /\ mode = "free"
    /\ dpc = "idle"
    /\ iters = 0
    /\ page_num = 1
    /\ seen = {}
    /\ stable_rounds = 0
    /\ last_count = 0
    /\ slash \in (IF site = "etsy" THEN BOOLEAN ELSE {FALSE})
    /\ result = <<>>
    /\ shown = {}
    /\ index_titles = {}
    /\ pool = "few"
    /\ item = <<>>
    /\ fpc = "idle"
    /\ attempt = 0
    /\ navs = 0
    /\ waits = <<>>
    /\ blocked = FALSE
    /\ page_in = NoPage
    /\ row = NoRow
    /\ probe = NoProbe
    /\ norm = NoNorm
    /\ rpc = "start"
    /\ cfg \in [profile : BOOLEAN, sheet : BOOLEAN, creds : BOOLEAN]
    /\ VINTED_DOMAIN = <<"es">>
    /\ item_urls = <<>>
    /\ idx = 0
    /\ rows = <<>>
    /\ sheet \in SheetsBefore(site)
    /\ attempted = <<>>
    /\ open = 0
    /\ launched = 0
    /\ net = FALSE
    /\ handed = <<>>

RunNext ==
    \/ EtsyRunStart \/ EtsyRunDiscovered \/ EtsyRunLoop \/ EtsyRunAfterFetch
    \/ VintedMainStart \/ VintedMainDiscovered \/ VintedMainLoop \/ VintedMainAfterFetch
    \/ WallapopRunStart \/ WallapopRunDiscovered \/ WallapopRunLoop \/ WallapopRunAfterFetch
    \/ EtsyPage \/ VintedScroll \/ WallapopScroll \/ DiscoveryRaises
    \/ EtsyGoto \/ EtsyBackoff \/ EtsyExtract
    \/ VintedApi \/ VintedHtml
    \/ WallapopFetch

SpecRun == RunInit /\ [][RunNext]_vars

-----------------------------------------------------------------------------
(* Wallapop run(): the loop over a long list of listings *)

\* full batches the longest run can fill
MaxBatches == 2

\* the lengths of item_urls: less than a batch, full batches, and one more
BatchLengths ==
    {WallapopBatch - 1, MaxBatches * WallapopBatch, MaxBatches * WallapopBatch + 1}

\* collect_profile_item_urls has returned n listings, sorted
Discovered(n) == Sorted({Canonical("wallapop", k) : k \in 1..n})

\* run() when collect_profile_item_urls has returned
BatchInit ==
    /\ site = "wallapop"
    /\ mode = "free"
    /\ dpc = "idle"
    /\ iters = 0
    /\ page_num = 1
    /\ seen = {}
    /\ stable_rounds = 0
    /\ last_count = 0
    /\ slash = FALSE
    /\ result = <<>>
    /\ shown = {}
    /\ index_titles = {}
    /\ pool = "batch"
    /\ item = <<>>
    /\ fpc = "idle"
    /\ attempt = 0
    /\ navs = 0
    /\ waits = <<>>
    /\ blocked = FALSE
    /\ page_in = NoPage
    /\ row = NoRow
    /\ probe = NoProbe
    /\ norm = NoNorm
    /\ rpc = "loop"
    /\ cfg = [profile |-> TRUE, sheet |-> TRUE, creds |-> TRUE]
    /\ VINTED_DOMAIN = <<"es">>
    /\ \E n \in BatchLengths : item_urls = Discovered(n)
    /\ idx = 1
    /\ rows = <<>>
    /\ sheet = get_sheet(<<>>)
    /\ attempted = <<>>
    /\ open = 1
    /\ launched = 1
    /\ net = TRUE
    /\ handed = <<>>

BatchNext == WallapopRunLoop \/ WallapopRunAfterFetch \/ WallapopFetch

SpecBatch == BatchInit /\ [][BatchNext]_vars

-----------------------------------------------------------------------------
(* The orchestrators: the claims *)

\* the column of field k
ColOf(headers, k) == CHOOSE i \in DOMAIN headers : headers[i] = k

\* the URL of a discovered listing
ListingUrl(u) == IF site = "vinted" THEN VintedItemUrl(VINTED_DOMAIN, u) ELSE u

\* the rows of the sheet, below the header, that carry the URL of listing u
RowsOf(u) ==
    {j \in 2..Len(sheet) : sheet[j][ColOf(HeadersOf(site), "url")] = Str(ListingUrl(u))}

\* C7 (Failure isolation): an exception in the extraction of one listing does
\* not abort the run, and when the run ends every listing discovered has been
\* attempted.
C7_FailureIsolation ==
    /\ rpc # "aborted"
    /\ rpc = "done" => attempted = item_urls

\* C7 holds of Etsy run and Wallapop run, whose loops catch the exception.
FailureIsolationEtsyWallapop ==
    site # "vinted" =>
        /\ rpc # "aborted"
        /\ rpc = "done" => attempted = item_urls

\* C8 (No listing is dropped): when a run completes, the sheet holds exactly
\* one row for every URL/id discovery returned, a stub row for a listing whose
\* extraction raised.
C8_NoListingDropped ==
    rpc = "done" => \A i \in DOMAIN item_urls : Cardinality(RowsOf(item_urls[i])) = 1

\* No listing has more than one row, and Vinted main, when it completes, has
\* one row for each.
AtMostOneRow ==
    rpc = "done" =>
        \A i \in DOMAIN item_urls :
            /\ Cardinality(RowsOf(item_urls[i])) <= 1
            /\ site = "vinted" => Cardinality(RowsOf(item_urls[i])) = 1

\* the run has ended, one way or another
RunEnded == rpc \in {"done", "exit", "unreachable", "failed", "aborted"}

\* C11 (Session release): whichever way a run ends (its return, a
\* configuration check, an exception of a discovery navigation, an exception
\* inside a per-listing fetch, a request to the sheet that fails), no browser
\* it launched is still open.
C11_SessionRelease == RunEnded => open = 0

\* C11's case: a browser was launched and a discovery navigation raised.
C11_Witness == rpc = "failed" /\ launched = 1 /\ open = 0

\* ... a per-listing fetch of Vinted raised
ReleasedAfterFetchRaised == rpc = "aborted" /\ launched = 2 /\ open = 0

\* ... the write at the end of the Wallapop run failed, inside the with block
ReleasedAfterWriteFailed ==
    site = "wallapop" /\ rpc = "unreachable" /\ launched = 1 /\ open = 0

\* C12 (Config before network): a run that aborts because a required input
\* is missing has sent nothing to the spreadsheet or to the site, and has
\* launched no browser.
C12_ConfigBeforeNetwork == rpc = "exit" => (~net /\ launched = 0)

\* C12 holds of Etsy, whose three inputs are checked at import, and of
\* Wallapop.
ConfigBeforeNetworkEtsyWallapop ==
    (rpc = "exit" /\ site # "vinted") => (~net /\ launched = 0)

\* Vinted: without SHEET_ID or GOOGLE_SA_JSON nothing is sent; without a
\* profile the sheet has been opened and cleared when main gives up.
ConfigVinted ==
    (rpc = "exit" /\ site = "vinted") =>
        IF cfg.sheet /\ cfg.creds
        THEN ~cfg.profile /\ net /\ sheet = write_headers("vinted")
        ELSE ~net

\* C13 (Single session): a run launches one browser, not more, and every
\* per-listing fetch runs in the browser discovery ran in.
C13_SingleSession ==
    /\ launched <= 1
    /\ rpc \in {"discover", "loop", "fetching"} => launched = 1

\* C13 holds of Etsy run and Wallapop run.
SingleSessionEtsyWallapop ==
    site # "vinted" =>
        /\ launched <= 1
        /\ rpc \in {"discover", "loop", "fetching"} => (launched = 1 /\ open = 1)

\* Vinted launches a browser for discovery and one more for every listing.
VintedSessions ==
    (site = "vinted" /\ rpc \in {"loop", "fetching", "done", "aborted"}) =>
        launched = 1 + Len(attempted)

\* C14 (Sync Target idempotence): when a run against a sheet that an earlier
\* run filled has completed, the sheet holds the header row and below it rows
\* of this run only: no row of the earlier run is left, there are no more rows
\* than listings, and no listing has two rows.
C14_SheetIdempotent ==
    rpc = "done" =>
        /\ sheet # <<>>
        /\ sheet[1] = HeaderRow(HeadersOf(site))
        /\ Len(sheet) <= 1 + Len(item_urls)
        /\ \A j \in 2..Len(sheet) : sheet[j] # OldRow(site)
        /\ \A i \in DOMAIN item_urls : Cardinality(RowsOf(item_urls[i])) <= 1

\* C14 holds of Etsy and Vinted, which clear the sheet before they write: the
\* sheet is the header and the rows of this run.
SheetIdempotentEtsyVinted ==
    (rpc = "done" /\ site # "wallapop") =>
        sheet = <<HeaderRow(HeadersOf(site))>>
                    \o [i \in 1..Len(rows) |-> CellsOf(HeadersOf(site), rows[i])]

-----------------------------------------------------------------------------
(* Wallapop run(): the batches *)

\* the rows of the calls h of write_rows, one after the other
RECURSIVE HandedRows(_)
HandedRows(h) == IF h = <<>> THEN <<>> ELSE h[1].rows \o HandedRows(Tail(h))

\* the position in item_urls of the listing of record r
PosOf(r) == CHOOSE k \in DOMAIN item_urls : item_urls[k] = r["url"].s

\* an iteration of the loop has just ended, or the loop has not begun
IterationEnded == site = "wallapop" /\ rpc = "loop"

\* rows_to_write holds fewer than 30 records
BufferBounded == Len(rows) < WallapopBatch

\* no record has been handed to write_rows twice, and the records have been
\* handed in the order of item_urls
HandedOnceInOrder ==
    LET hr == HandedRows(handed)
    IN  \A i, j \in DOMAIN hr : i < j => PosOf(hr[i]) < PosOf(hr[j])

\* every record extracted so far is in the buffer or has been handed over:
\* only the listings that failed to load are missing
NothingLost ==
    LET all == HandedRows(handed) \o rows
    IN  \A k \in 1..(idx - 1) :
            k \notin FlakyListings => \E i \in DOMAIN all : PosOf(all[i]) = k

\* every record handed to write_rows is on the sheet
HandedWritten ==
    \A i \in DOMAIN handed : \A j \in DOMAIN handed[i].rows :
        \E n \in DOMAIN sheet : sheet[n] = CellsOf(OUTPUT_COLUMNS, handed[i].rows[j])

\* C21: at the end of every iteration of the loop of Wallapop run() the
\* buffer rows_to_write holds fewer than 30 records; every record extracted
\* is handed to write_rows exactly once, in discovery order; and whenever the
\* run may be interrupted, every record of a batch handed over is already on
\* the sheet.
C21_BoundedBatchFlush ==
    IterationEnded => (BufferBounded /\ HandedOnceInOrder /\ NothingLost /\ HandedWritten)

\* As long as append_rows has not raised, the loop keeps all of it.
BatchFlushWhileWritesSucceed ==
    (IterationEnded /\ \A i \in DOMAIN handed : handed[i].ok) =>
        (BufferBounded /\ HandedOnceInOrder /\ NothingLost /\ HandedWritten)

\* A write that raises is caught by the except of the loop body and the
\* buffer is not emptied: it holds 30 records or more only after such a write,
\* and then every later iteration hands all of it to write_rows again.
BufferFullOnlyAfterFailure ==
    (IterationEnded /\ ~BufferBounded) =>
        /\ handed # <<>>
        /\ ~handed[Len(handed)].ok
        /\ handed[Len(handed)].rows = rows

\* No record is lost, whatever the writes do.
NothingLostEver == IterationEnded => NothingLost

\* The sheet never holds a record twice.
SheetRowsOnce == \A m, n \in DOMAIN sheet : m < n => sheet[m] # sheet[n]

====
